---- MODULE Spec2Model ----
(***************************************************************************)
(* Multi-round uniform-price auction service (CryptoBot-Challenge).        *)
(*                                                                         *)
(* The store is MongoDB.  Every money-moving operation runs in withTxn: a  *)
(* transaction with snapshot read concern.  A transaction is modelled by   *)
(* two steps: Begin stores the snapshot it reads from and its `now`;       *)
(* Finish runs the body on the snapshot and either surfaces the body's     *)
(* error, or hits a write conflict (a document it writes was changed after *)
(* the snapshot: TransientTransactionError, retried by withTxn), or        *)
(* commits all its writes at once.  Operations outside a transaction       *)
(* (createAuction, the engine's finds, the open->closing CAS and the       *)
(* engine lock upsert) are single atomic steps on the current state.       *)
(*                                                                         *)
(* Fields no code path reads (title, createdAt, updatedAt, startedAt,      *)
(* endedAt, settledAt, ledger meta) are not part of the state.             *)
(***************************************************************************)
EXTENDS Integers, Sequences, FiniteSets, Bags, TLC

VARIABLES
  now,         \* the shared wall clock, in ms
  users,       \* users collection: userId -> balance and totalTopups
  auctions,    \* auctions collection: auctionId -> AuctionDoc
  bids,        \* bids collection: auctionId -> userId -> BidDoc
  rounds,      \* rounds collection: a bag of RoundDoc
  ledger,      \* ledger collection: a bag of LedgerDoc
  engineLock,  \* the engineLocks singleton document
  tokenCtr,    \* number of closing tokens generated so far (new ObjectId())
  txn,         \* client request slots: the withTxn call each one is in
  engine,      \* engine processes: position in tick and its settlement txn
  call         \* a call of a pure function: its arguments and its result

vars == <<now, users, auctions, bids, rounds, ledger, engineLock, tokenCtr, txn, engine, call>>

dbVars == <<users, auctions, bids, rounds, ledger>>

----------------------------------------------------------------------------
(* Bounds of the model *)

MaxTime == 20000
MaxTimeEngines == 15000
MaxTimeAuctions == 10000
MaxTopup == 2
MaxBid == 2
MaxLedger == 2
MaxLedgerSupply == 3
MaxIncarnation == 1
MaxTimeRecovery == 15000
MaxRound == 4
MaxRankLen == 3

TimeSteps == {5000}
Users == {1, 2, 3}
Bidders == {1, 2}
AuctionIds == {1, 2}
\* The ids of the auctions collection: AuctionIds, or ManyAuctions in SpecLimit.
Auctions == DOMAIN auctions
Clients == {1, 2}
Procs == {1, 2}
TopupAmounts == {MaxTopup}
BidAmounts == 1..MaxBid
\* The instants the clock is read at around the end of a first round.
BidInstants == {4999, 5000, 10000}
\* The instants the clock is read at around the anti-snipe window of WindowInputs.
WindowInstants == {2999, 3000, 4500, 6500}
\* The instants the clock is read at in an auction created from SnipeInputs.
SnipeInstants == {4999, 6000, 8000}

(* Program constants *)

closeGraceMs == 250
maxAttempts == 5
findLimit == 5
pollIntervalMs == 500
minLockTtlMs == 2000

NoTime == -1
NoToken == 0

Max(x, y) == IF x >= y THEN x ELSE y
Min(x, y) == IF x <= y THEN x ELSE y

lockTtlMs == Max(minLockTtlMs, pollIntervalMs * 10)

----------------------------------------------------------------------------
(* Documents *)

NoSettlement == [wonRound |-> 0, giftSerial |-> 0, clearingPrice |-> 0, paid |-> 0, refunded |-> 0]

NoBid == [status |-> "none", amount |-> 0, lastBidAt |-> NoTime, settlement |-> NoSettlement]

NoConfig ==
  [roundDurationMs |-> 0, winnersPerRound |-> 0, antiSnipeWindowMs |-> 0, antiSnipeExtendMs |-> 0,
   maxWinsPerUser |-> 0, maxDurationMs |-> 0, maxConsecutiveEmptyRounds |-> 0]

NoAuction ==
  [state |-> "absent", endsAt |-> NoTime, endReason |-> "none", totalQuantity |-> 0,
   awardedCount |-> 0, revenue |-> 0, currentRound |-> 0, consecutiveEmptyRounds |-> 0,
   roundState |-> "none", roundEndsAt |-> NoTime, closingToken |-> NoToken,
   closingStartedAt |-> NoTime, version |-> 0, config |-> NoConfig]

NewUser == [available |-> 0, reserved |-> 0, spent |-> 0, totalTopups |-> 0]

LedgerEntry(type, u, a, amount) == [type |-> type, userId |-> u, auctionId |-> a, amount |-> amount]

RECURSIVE SumEntries(_, _)
SumEntries(S, L) ==
  IF S = {} THEN 0
  ELSE LET e == CHOOSE x \in S : TRUE
       IN e.amount * CopiesIn(e, L) + SumEntries(S \ {e}, L)

LedgerSum(L, a, type) ==
  SumEntries({e \in BagToSet(L) : e.auctionId = a /\ e.type = type}, L)

RECURSIVE SumOver(_, _)
SumOver(S, f) ==
  IF S = {} THEN 0
  ELSE LET x == CHOOSE y \in S : TRUE
       IN f[x] + SumOver(S \ {x}, f)

----------------------------------------------------------------------------
(* createAuction and the user collection *)

ClampInt(v, lo, hi) == IF v < lo THEN lo ELSE IF v > hi THEN hi ELSE v

\* The inputs createAuction is called with (title omitted).
AuctionInputs ==
  { [totalQuantity |-> 2, roundDurationMs |-> 1000, winnersPerRound |-> 3,
     antiSnipeWindowMs |-> 0, antiSnipeExtendMs |-> 10000, maxDurationMs |-> 20000,
     maxConsecutiveEmptyRounds |-> 1] }

\* Auctions with anti-sniping on and a maximum duration that ends inside the
\* second round, or before the first round would.
SnipeInputs ==
  { [totalQuantity |-> 2, roundDurationMs |-> 5000, winnersPerRound |-> 1,
     antiSnipeWindowMs |-> 1000, antiSnipeExtendMs |-> 2000, maxDurationMs |-> d,
     maxConsecutiveEmptyRounds |-> 2] : d \in {4999, 7500} }

\* Auctions of 5 s rounds with an anti-snipe extension of 3 s, a window of
\* 2 s or none, and no maximum duration or one of 7 s.
WindowInputs ==
  { [totalQuantity |-> 2, roundDurationMs |-> 5000, winnersPerRound |-> 1,
     antiSnipeWindowMs |-> w, antiSnipeExtendMs |-> 3000, maxDurationMs |-> d,
     maxConsecutiveEmptyRounds |-> 2] : w \in {0, 2000}, d \in {0, 7000} }

\* Auctions of two items sold one per round, with no maximum duration or
\* one of 12 s, and no limit of empty rounds or a limit of two.
EndInputs ==
  { [totalQuantity |-> 2, roundDurationMs |-> 5000, winnersPerRound |-> 1,
     antiSnipeWindowMs |-> 0, antiSnipeExtendMs |-> 0, maxDurationMs |-> d,
     maxConsecutiveEmptyRounds |-> e] : d \in {0, 12000}, e \in {0, 2} }

CreateAuctionDoc(input) ==
  [NoAuction EXCEPT
     !.state = "draft",
     !.totalQuantity = input.totalQuantity,
     !.config =
       [roundDurationMs |-> ClampInt(input.roundDurationMs, 5000, 60 * 60000),
        winnersPerRound |-> ClampInt(input.winnersPerRound, 1, input.totalQuantity),
        antiSnipeWindowMs |-> ClampInt(input.antiSnipeWindowMs, 0, 60000),
        antiSnipeExtendMs |-> ClampInt(input.antiSnipeExtendMs, 0, 60000),
        maxWinsPerUser |-> 1,
        maxDurationMs |-> ClampInt(input.maxDurationMs, 0, 7 * 24 * 60 * 60000),
        maxConsecutiveEmptyRounds |-> ClampInt(input.maxConsecutiveEmptyRounds, 0, 10000)]]

----------------------------------------------------------------------------
(* Balance mutations ($inc updates on users.balance) *)

TopupBalance(b, amount) ==
  [b EXCEPT !.available = @ + amount, !.totalTopups = @ + amount]

ReserveBalance(b, delta) ==
  [b EXCEPT !.available = @ - delta, !.reserved = @ + delta]

\* A release that credits available and leaves reserved as it was.
UnreserveKeepsReserved(b, amount) == [b EXCEPT !.available = @ + amount]

UnreserveBalance(b, amount) ==
  [b EXCEPT !.reserved = @ - amount, !.available = @ + amount]

\* A settlement that returns no refund to available.
WinBalanceNoRefund(b, amount, paid, refunded) ==
  [b EXCEPT !.reserved = @ - amount, !.spent = @ + paid]

WinBalance(b, amount, paid, refunded) ==
  [b EXCEPT !.reserved = @ - amount, !.spent = @ + paid, !.available = @ + refunded]

----------------------------------------------------------------------------
(* Transaction bodies.  Each takes the snapshot s = [auctions, bids, users] *)
(* and its own `now` t, and yields the error it throws ("OK" if none) with  *)
(* the documents as it leaves them and the rounds and ledger entries it     *)
(* inserts.                                                                 *)

\* The snapshot of a transaction, kept for the documents its body reads: the
\* auction, then the caller's bid and user (topupUser, placeBid, withdrawBid)
\* or the auction's bids and the users holding its active bids (cancelAuction,
\* settleClosingAuction).  The other documents are left blank.
Reads(op, a, u) ==
  LET wide == op \in {"cancelAuction", "settleClosingAuction"}
      bidRead(b, v) == b = a /\ (wide \/ (v = u /\ op \in {"placeBid", "withdrawBid"}))
      userRead(v) == IF wide THEN bids[a][v].status = "active"
                     ELSE v = u /\ op \in {"topupUser", "placeBid", "withdrawBid"}
  IN [auctions |-> [b \in Auctions |-> IF b = a THEN auctions[b] ELSE NoAuction],
      bids |-> [b \in Auctions |-> [v \in Users |->
                  IF bidRead(b, v) THEN bids[b][v] ELSE NoBid]],
      users |-> [v \in Users |-> IF userRead(v) THEN users[v] ELSE NewUser]]

Fail(s, code) ==
  [err |-> code, auctions |-> s.auctions, bids |-> s.bids, users |-> s.users,
   rounds |-> EmptyBag, ledger |-> EmptyBag]

Ok(au, bi, us, rd, le) ==
  [err |-> "OK", auctions |-> au, bids |-> bi, users |-> us, rounds |-> rd, ledger |-> le]

topupUser(s, t, u, amount) ==
  IF amount <= 0 THEN Fail(s, "INVALID_INPUT")
  ELSE Ok(s.auctions, s.bids,
          [s.users EXCEPT ![u] = TopupBalance(@, amount)],
          EmptyBag,
          SetToBag({LedgerEntry("topup", u, 0, amount)}))

startAuction(s, t, a) ==
  LET existing == s.auctions[a]
      endsAt == t + existing.config.roundDurationMs
      auctionEndsAt == IF existing.config.maxDurationMs > 0
                       THEN t + existing.config.maxDurationMs ELSE NoTime
      roundEndsAt == IF auctionEndsAt # NoTime /\ auctionEndsAt < endsAt
                     THEN auctionEndsAt ELSE endsAt
  IN IF existing.state = "absent" THEN Fail(s, "NOT_FOUND")
     ELSE IF existing.state # "draft" THEN Fail(s, "NOT_STARTABLE")
     ELSE Ok([s.auctions EXCEPT ![a] =
                [@ EXCEPT !.state = "running",
                          !.endsAt = auctionEndsAt,
                          !.currentRound = 1,
                          !.roundState = "open",
                          !.roundEndsAt = roundEndsAt,
                          !.consecutiveEmptyRounds = 0,
                          !.endReason = "none",
                          !.version = @ + 1]],
             s.bids, s.users, EmptyBag, EmptyBag)

ActiveUsers(bi, a) == {u \in Users : bi[a][u].status = "active"}

\* A refund loop that pays back and leaves the bids active.
RefundKeepsBids(bi, us, a, status) ==
  LET act == {u \in Users : bi[a][u].status = "active"}
  IN [shortOf |-> \E u \in act : us[u].reserved < bi[a][u].amount,
      bids |-> bi,
      users |-> [u \in Users |->
                  IF u \in act
                  THEN [us[u] EXCEPT !.reserved = @ - bi[a][u].amount,
                                     !.available = @ + bi[a][u].amount]
                  ELSE us[u]],
      ledger |-> SetToBag({LedgerEntry("unreserve", u, a, bi[a][u].amount) : u \in act})]

\* The refund loop shared by cancelAuction and the end of an auction: every
\* active bid of the auction gets `status`, its amount goes reserved -> available
\* with one unreserve entry.  shortOf is TRUE when some predicated user update
\* (reserved >= amount) matches nothing.
\* A refund of the active bids that gives its status to every bid of the
\* auction, the withdrawn and the won ones too.
RefundMarksEveryBid(bi, us, a, status) ==
  LET act == {u \in Users : bi[a][u].status = "active"}
  IN [shortOf |-> \E u \in act : us[u].reserved < bi[a][u].amount,
      bids |-> [bi EXCEPT ![a] = [u \in Users |->
                  IF bi[a][u].status # "none" THEN [bi[a][u] EXCEPT !.status = status]
                  ELSE bi[a][u]]],
      users |-> [u \in Users |->
                  IF u \in act
                  THEN [us[u] EXCEPT !.reserved = @ - bi[a][u].amount,
                                     !.available = @ + bi[a][u].amount]
                  ELSE us[u]],
      ledger |-> SetToBag({LedgerEntry("unreserve", u, a, bi[a][u].amount) : u \in act})]

RefundActive(bi, us, a, status) ==
  LET act == ActiveUsers(bi, a)
  IN [shortOf |-> \E u \in act : us[u].reserved < bi[a][u].amount,
      bids |-> [bi EXCEPT ![a] = [u \in Users |->
                  IF u \in act THEN [bi[a][u] EXCEPT !.status = status] ELSE bi[a][u]]],
      users |-> [u \in Users |->
                  IF u \in act THEN UnreserveBalance(us[u], bi[a][u].amount) ELSE us[u]],
      ledger |-> SetToBag({LedgerEntry("unreserve", u, a, bi[a][u].amount) : u \in act})]

\* A cancellation that leaves the round fields and the closing token in place.
cancelKeepsRound(s, t, a) ==
  LET au == s.auctions[a]
      rf == RefundActive(s.bids, s.users, a, "withdrawn")
  IN IF au.state \notin {"draft", "running"} THEN Fail(s, "NOT_CANCELLABLE")
     ELSE IF rf.shortOf THEN Fail(s, "INVARIANT_VIOLATION")
     ELSE Ok([s.auctions EXCEPT ![a] =
                [@ EXCEPT !.state = "cancelled", !.endReason = "cancelled", !.version = @ + 1]],
             rf.bids, rf.users, EmptyBag, rf.ledger)

cancelAuction(s, t, a) ==
  LET au == s.auctions[a]
      rf == RefundActive(s.bids, s.users, a, "withdrawn")
  IN IF au.state \notin {"draft", "running"} THEN Fail(s, "NOT_CANCELLABLE")
     ELSE IF rf.shortOf THEN Fail(s, "INVARIANT_VIOLATION")
     ELSE Ok([s.auctions EXCEPT ![a] =
                [@ EXCEPT !.state = "cancelled",
                          !.endReason = "cancelled",
                          !.roundState = "none",
                          !.roundEndsAt = NoTime,
                          !.closingToken = NoToken,
                          !.closingStartedAt = NoTime,
                          !.version = @ + 1]],
             rf.bids, rf.users, EmptyBag, rf.ledger)

\* An extension that is not clamped to the end of the auction.
AntiSnipeUnclamped(au, t) ==
  IF au.roundEndsAt - t <= au.config.antiSnipeWindowMs
  THEN Max(au.roundEndsAt, t + au.config.antiSnipeExtendMs) ELSE au.roundEndsAt

\* A window that excludes the instant at exactly antiSnipeWindowMs before the end.
AntiSnipeStrictWindow(au, t) ==
  LET extended == t + au.config.antiSnipeExtendMs
      candidate == IF au.endsAt # NoTime /\ extended > au.endsAt THEN au.endsAt ELSE extended
  IN IF au.roundEndsAt - t < au.config.antiSnipeWindowMs /\ candidate > au.roundEndsAt
     THEN candidate ELSE au.roundEndsAt

\* placeBid's new roundEndsAt: the clamp to endsAt and the anti-snipe extension.
AntiSnipeEndsAt(au, t) ==
  LET clamped == IF au.endsAt # NoTime /\ au.roundEndsAt > au.endsAt
                 THEN au.endsAt ELSE au.roundEndsAt
      remainingMs == au.roundEndsAt - t
      extended == t + au.config.antiSnipeExtendMs
      candidate == IF au.endsAt # NoTime /\ extended > au.endsAt THEN au.endsAt ELSE extended
  IN IF remainingMs <= au.config.antiSnipeWindowMs /\ candidate > clamped
     THEN candidate ELSE clamped

\* A round end counted from the bid, whatever the round end was.
ExtendFromNow(auction, t) == t + auction.config.antiSnipeExtendMs

\* $max: { roundEndsAt: newEndsAt }
MaxRoundEndsAt(auction, t) == Max(auction.roundEndsAt, AntiSnipeEndsAt(auction, t))

\* A time check that lets a call through at the very end of the round.
RoundEndedAfter(auction, t) == t > auction.roundEndsAt

\* now.getTime() >= auction.roundEndsAt.getTime()
RoundEnded(auction, t) == t >= auction.roundEndsAt

\* The auctions each bidder operation admits: state running, round open.
OpenForBids(au) == au.state = "running" /\ au.roundState = "open" /\ au.roundEndsAt # NoTime

\* An old amount that forgets the active bid.
OldAmountZero(existing) == 0

\* oldAmount = existingActive ? existing.amount : 0
OldAmount(existing) == IF existing.status = "active" THEN existing.amount ELSE 0

placeBid(s, t, a, u, newAmount) ==
  LET auction == s.auctions[a]
      existing == s.bids[a][u]
      oldAmount == OldAmount(existing)
      delta == newAmount - oldAmount
  IN IF newAmount <= 0 THEN Fail(s, "INVALID_INPUT")
     ELSE IF auction.state = "absent" THEN Fail(s, "NOT_FOUND")
     ELSE IF ~OpenForBids(auction) THEN Fail(s, "NOT_OPEN")
     ELSE IF RoundEnded(auction, t) THEN Fail(s, "ROUND_ENDED")
     ELSE IF existing.status \in {"won", "lost"} THEN Fail(s, "BID_NOT_ACTIVE")
     ELSE IF newAmount <= oldAmount THEN Fail(s, "INVALID_INPUT")
     ELSE IF ~(s.users[u].available >= delta) THEN Fail(s, "INSUFFICIENT_FUNDS")
     ELSE Ok([s.auctions EXCEPT ![a] =
                [@ EXCEPT !.roundEndsAt = MaxRoundEndsAt(auction, t),
                          !.version = @ + 1]],
             [s.bids EXCEPT ![a][u] =
                [existing EXCEPT !.status = "active", !.amount = newAmount, !.lastBidAt = t]],
             [s.users EXCEPT ![u] = ReserveBalance(@, delta)],
             EmptyBag,
             SetToBag({LedgerEntry("reserve", u, a, delta)}))

withdrawBid(s, t, a, u) ==
  LET auction == s.auctions[a]
      bid == s.bids[a][u]
  IN IF auction.state = "absent" THEN Fail(s, "NOT_FOUND")
     ELSE IF ~OpenForBids(auction) THEN Fail(s, "NOT_OPEN")
     ELSE IF RoundEnded(auction, t) THEN Fail(s, "ROUND_ENDED")
     ELSE IF bid.status # "active" THEN Fail(s, "BID_NOT_ACTIVE")
     ELSE IF ~(s.users[u].reserved >= bid.amount) THEN Fail(s, "INVARIANT_VIOLATION")
     ELSE Ok([s.auctions EXCEPT ![a] = [@ EXCEPT !.version = @ + 1]],
             [s.bids EXCEPT ![a][u] = [bid EXCEPT !.status = "withdrawn"]],
             [s.users EXCEPT ![u] = UnreserveBalance(@, bid.amount)],
             EmptyBag,
             SetToBag({LedgerEntry("unreserve", u, a, bid.amount)}))

----------------------------------------------------------------------------
(* domain/ranking.ts.  A string is the sequence of its code units. *)

\* a < b on JavaScript strings: the first differing code unit decides, and a
\* proper prefix comes first.
RECURSIVE StringLess(_, _)
StringLess(x, y) ==
  IF y = <<>> THEN FALSE
  ELSE IF x = <<>> THEN TRUE
  ELSE IF x[1] # y[1] THEN x[1] < y[1]
  ELSE StringLess(Tail(x), Tail(y))

\* A comparator that leaves bids of equal amount and time unordered.
compareAmountAndTime(a, b) ==
  IF a.amount # b.amount THEN b.amount - a.amount
  ELSE a.lastBidAt - b.lastBidAt

compareRankableBids(a, b) ==
  IF a.amount # b.amount THEN b.amount - a.amount
  ELSE IF a.lastBidAt # b.lastBidAt THEN a.lastBidAt - b.lastBidAt
  ELSE IF StringLess(a.userId, b.userId) THEN -1
  ELSE IF StringLess(b.userId, a.userId) THEN 1
  ELSE 0

\* [...bids].sort(compareRankableBids): Array.prototype.sort is stable.
RECURSIVE InsertRanked(_, _)
InsertRanked(x, sorted) ==
  IF sorted = <<>> THEN <<x>>
  ELSE IF compareRankableBids(x, sorted[1]) < 0 THEN <<x>> \o sorted
  ELSE <<sorted[1]>> \o InsertRanked(x, Tail(sorted))

RECURSIVE SortRanked(_)
SortRanked(seq) ==
  IF seq = <<>> THEN <<>>
  ELSE InsertRanked(seq[Len(seq)], SortRanked(SubSeq(seq, 1, Len(seq) - 1)))

selectWinners(rankable, winnersCount) ==
  IF winnersCount <= 0 THEN [winners |-> <<>>, clearingPrice |-> 0]
  ELSE LET sorted == SortRanked(rankable)
           winners == SubSeq(sorted, 1, Min(winnersCount, Len(sorted)))
       IN [winners |-> winners,
           clearingPrice |-> IF Len(winners) = 0 THEN 0 ELSE winners[Len(winners)].amount]

\* The bids selectWinners is called with: user ids "a", "ab", "b", "c",
\* amounts 99 and 100, two instants 1 ms apart, at most one bid per user.
RankIds == {<<97>>, <<97, 98>>, <<98>>, <<99>>}

RankableBids ==
  [userId : RankIds, amount : {99, 100}, lastBidAt : {999, 1000}]

RankInputs ==
  UNION {{seq \in [1..n -> RankableBids] :
            \A i, j \in 1..n : i # j => seq[i].userId # seq[j].userId} : n \in 0..MaxRankLen}

\* One lowercase hexadecimal digit as a UTF-16 code unit.
HexDigit(d) == IF d < 10 THEN 48 + d ELSE 87 + d

\* ObjectId.toHexString() of an id of one byte: two hexadecimal digits.
toHexString(id) == <<HexDigit(id \div 16), HexDigit(id % 16)>>

NoOut == [winners |-> <<>>, clearingPrice |-> -1]

----------------------------------------------------------------------------
(* Settlement of one closing round *)

\* An order that breaks ties of amount and time by the higher userId.
SortsBeforeIdDescending(bi, a, u, v) ==
  \/ bi[a][u].amount > bi[a][v].amount
  \/ bi[a][u].amount = bi[a][v].amount /\ bi[a][u].lastBidAt < bi[a][v].lastBidAt
  \/ bi[a][u].amount = bi[a][v].amount /\ bi[a][u].lastBidAt = bi[a][v].lastBidAt /\ u > v

\* The order of bids.find(...).sort({amount: -1, lastBidAt: 1, userId: 1}).
SortsBefore(bi, a, u, v) ==
  \/ bi[a][u].amount > bi[a][v].amount
  \/ bi[a][u].amount = bi[a][v].amount /\ bi[a][u].lastBidAt < bi[a][v].lastBidAt
  \/ bi[a][u].amount = bi[a][v].amount /\ bi[a][u].lastBidAt = bi[a][v].lastBidAt /\ u < v

RECURSIVE SortedBids(_, _, _)
SortedBids(bi, a, S) ==
  IF S = {} THEN <<>>
  ELSE LET top == CHOOSE u \in S : \A v \in S \ {u} : SortsBefore(bi, a, u, v)
       IN <<top>> \o SortedBids(bi, a, S \ {top})

Limit(seq, n) == SubSeq(seq, 1, Min(n, Len(seq)))

RemainingQty(auction) == Max(0, auction.totalQuantity - auction.awardedCount)

\* A winners count that ignores what is left of the supply.
WinnersCountUncapped(auction) == auction.config.winnersPerRound

WinnersCount(auction) == Min(auction.config.winnersPerRound, RemainingQty(auction))

\* Serials that start again at 1 in every round.
GiftSerialPerRound(auction, idx) == idx + 1

\* idx is the winner's 0-based rank, as in winnerBids.map((b, idx) => ...).
GiftSerial(auction, idx) == auction.awardedCount + idx + 1

WinnerBids(s, a) ==
  IF WinnersCount(s.auctions[a]) > 0
  THEN Limit(SortedBids(s.bids, a, ActiveUsers(s.bids, a)), WinnersCount(s.auctions[a]))
  ELSE <<>>

\* A price set by the highest winning bid.
ClearingPriceTop(s, a, winnerBids) ==
  IF Len(winnerBids) = 0 THEN 0 ELSE s.bids[a][winnerBids[1]].amount

ClearingPrice(s, a, winnerBids) ==
  IF Len(winnerBids) = 0 THEN 0 ELSE s.bids[a][winnerBids[Len(winnerBids)]].amount

Winners(s, a) ==
  LET winnerBids == WinnerBids(s, a)
      clearingPrice == ClearingPrice(s, a, winnerBids)
  IN [i \in 1..Len(winnerBids) |->
        [userId |-> winnerBids[i],
         amount |-> s.bids[a][winnerBids[i]].amount,
         giftSerial |-> GiftSerial(s.auctions[a], i - 1),
         paid |-> clearingPrice,
         refunded |-> s.bids[a][winnerBids[i]].amount - clearingPrice]]

RoundDoc(a, roundNumber, clearingPrice, winners) ==
  [auctionId |-> a, roundNumber |-> roundNumber, clearingPrice |-> clearingPrice,
   winners |-> winners]

\* Spend entries of the amount bid instead of the price paid.
WinnerLedgerByAmount(a, winners) ==
  SetToBag({LedgerEntry("spend", winners[i].userId, a, winners[i].amount) : i \in DOMAIN winners})

\* Spend entries only: the refund of a winner leaves no entry.
WinnerLedgerNoRefund(a, winners) ==
  SetToBag({LedgerEntry("spend", winners[i].userId, a, winners[i].paid) : i \in DOMAIN winners})

\* The spend entry and, when refunded > 0, the refund entry of each winner.
WinnerLedger(a, winners) ==
  SetToBag({LedgerEntry("spend", winners[i].userId, a, winners[i].paid) : i \in DOMAIN winners})
  (+) SetToBag({LedgerEntry("refund", winners[i].userId, a, winners[i].refunded) :
                  i \in {j \in DOMAIN winners : winners[j].refunded > 0}})

\* The auction update that ends the auction or opens the next round.
\* An end reason that names the maximum duration before the sold-out supply.
EndReasonDurationFirst(soldOut, forcedByDuration) ==
  IF forcedByDuration THEN "maxDuration" ELSE IF soldOut THEN "soldOut" ELSE "emptyRounds"

EndReason(soldOut, forcedByDuration) ==
  IF soldOut THEN "soldOut" ELSE IF forcedByDuration THEN "maxDuration" ELSE "emptyRounds"

\* A next round that always lasts roundDurationMs, past endsAt.
NextRoundEndsAtUncapped(auction, t) == t + auction.config.roundDurationMs

NextRoundEndsAt(auction, t) ==
  IF auction.endsAt # NoTime /\ auction.endsAt < t + auction.config.roundDurationMs
  THEN auction.endsAt ELSE t + auction.config.roundDurationMs

\* A read by _id alone.
MatchesAnyRound(auction, closingToken) == TRUE

\* Does the read { _id, state: running, roundState: closing, closingToken } match?
MatchesClosing(auction, closingToken) ==
  auction.state = "running" /\ auction.roundState = "closing" /\ auction.closingToken = closingToken

settleClosingAuction(s, t, a, closingToken) ==
  \* const winners = ...: the ranking is computed once and used throughout.
  CHOOSE result \in {
    LET auction == s.auctions[a]
        remainingQty == RemainingQty(auction)
        nWinners == Len(winners)
        clearingPrice == ClearingPrice(s, a, WinnerBids(s, a))
        wonOf == [u \in Users |-> {i \in DOMAIN winners : winners[i].userId = u}]
        w(u) == winners[CHOOSE i \in wonOf[u] : TRUE]
        bidsWon == [s.bids EXCEPT ![a] = [u \in Users |->
                      IF wonOf[u] # {}
                      THEN [s.bids[a][u] EXCEPT
                              !.status = "won",
                              !.settlement = [wonRound |-> auction.currentRound,
                                              giftSerial |-> w(u).giftSerial,
                                              clearingPrice |-> clearingPrice,
                                              paid |-> w(u).paid,
                                              refunded |-> w(u).refunded]]
                      ELSE s.bids[a][u]]]
        shortOfReserved == \E u \in Users : wonOf[u] # {} /\ s.users[u].reserved < w(u).amount
        usersWon == [u \in Users |->
                      IF wonOf[u] # {}
                      THEN WinBalance(s.users[u], w(u).amount, w(u).paid, w(u).refunded)
                      ELSE s.users[u]]
        newAwardedCount == auction.awardedCount + nWinners
        soldOut == newAwardedCount >= auction.totalQuantity
        forcedByDuration == auction.endsAt # NoTime /\ t >= auction.endsAt
        emptyRound == remainingQty > 0 /\ nWinners = 0
        newConsecutiveEmptyRounds == IF emptyRound THEN auction.consecutiveEmptyRounds + 1 ELSE 0
        forcedByEmptyRounds ==
          /\ emptyRound
          /\ auction.config.maxConsecutiveEmptyRounds > 0
          /\ newConsecutiveEmptyRounds >= auction.config.maxConsecutiveEmptyRounds
        shouldEnd == soldOut \/ forcedByDuration \/ forcedByEmptyRounds
        rf == RefundActive(bidsWon, usersWon, a, "lost")
        round == RoundDoc(a, auction.currentRound, clearingPrice, winners)
        settled == [auction EXCEPT
                      !.awardedCount = newAwardedCount,
                      !.revenue = @ + clearingPrice * nWinners,
                      !.consecutiveEmptyRounds = newConsecutiveEmptyRounds,
                      !.closingToken = NoToken,
                      !.closingStartedAt = NoTime,
                      !.version = @ + 1]
    IN IF ~MatchesClosing(auction, closingToken) THEN Ok(s.auctions, s.bids, s.users, EmptyBag, EmptyBag)
       ELSE IF shortOfReserved THEN Fail(s, "Error")
       ELSE IF shouldEnd THEN
         IF rf.shortOf THEN Fail(s, "Error")
         ELSE Ok([s.auctions EXCEPT ![a] =
                    [settled EXCEPT !.state = "ended",
                                    !.endReason = EndReason(soldOut, forcedByDuration),
                                    !.roundState = "none",
                                    !.roundEndsAt = NoTime]],
                 rf.bids, rf.users, SetToBag({round}),
                 WinnerLedger(a, winners) (+) rf.ledger)
       ELSE Ok([s.auctions EXCEPT ![a] =
                  [settled EXCEPT !.currentRound = @ + 1,
                                  !.roundState = "open",
                                  !.roundEndsAt = NextRoundEndsAt(auction, t)]],
               bidsWon, usersWon, SetToBag({round}), WinnerLedger(a, winners)) :
      winners \in {Winners(s, a)} } : TRUE

----------------------------------------------------------------------------
(* withTxn: how a transaction ends against the current state of the store *)

\* Writes that never conflict: the last writer wins.
NoWriteConflict(s, r) == FALSE

\* A document the body wrote was changed by someone else after the snapshot.
WriteConflict(s, r) ==
  \/ \E a \in Auctions : r.auctions[a] # s.auctions[a] /\ auctions[a] # s.auctions[a]
  \/ \E u \in Users : r.users[u] # s.users[u] /\ users[u] # s.users[u]
  \/ \E a \in Auctions, u \in Users : r.bids[a][u] # s.bids[a][u] /\ bids[a][u] # s.bids[a][u]

\* The unique index (auctionId, roundNumber) of rounds refuses the insert.
DuplicateRound(r) ==
  \E n \in BagToSet(r.rounds), o \in BagToSet(rounds) :
    n.auctionId = o.auctionId /\ n.roundNumber = o.roundNumber

\* The unique index (auctionId, userId) of bids refuses the insert.
DuplicateBid(s, r) ==
  \E a \in Auctions, u \in Users :
    s.bids[a][u].status = "none" /\ r.bids[a][u].status # "none" /\ bids[a][u].status # "none"

\* A store that checks neither write conflicts nor unique indexes, as when the
\* operations do not run in the session's transaction.
TxnOutcomesUnchecked(s, r) == IF r.err # "OK" THEN {r.err} ELSE {"COMMIT"}

\* A duplicate key met by a transaction whose snapshot predates the other
\* insert surfaces as error 11000 or as a write conflict.
TxnOutcomes(s, r) ==
  IF r.err # "OK" THEN {r.err}
  ELSE IF DuplicateRound(r) \/ DuplicateBid(s, r) THEN {"DUPKEY", "CONFLICT"}
  ELSE IF WriteConflict(s, r) THEN {"CONFLICT"}
  ELSE {"COMMIT"}

\* A catch that rethrows whatever it caught.
NeverRetries(outcome, attempt, retryOnDuplicateKey) == FALSE

\* A catch that retries whatever it caught.
RetriesAnyError(outcome, attempt, retryOnDuplicateKey) == attempt < maxAttempts

\* withTxn's catch: retry a transient error, and a duplicate key when asked to.
Retries(outcome, attempt, retryOnDuplicateKey) ==
  /\ outcome = "CONFLICT" \/ (retryOnDuplicateKey /\ outcome = "DUPKEY")
  /\ attempt < maxAttempts

Commit(s, r) ==
  /\ auctions' = [a \in Auctions |-> IF r.auctions[a] # s.auctions[a] THEN r.auctions[a] ELSE auctions[a]]
  /\ users' = [u \in Users |-> IF r.users[u] # s.users[u] THEN r.users[u] ELSE users[u]]
  /\ bids' = [a \in Auctions |-> [u \in Users |->
                IF r.bids[a][u] # s.bids[a][u] THEN r.bids[a][u] ELSE bids[a][u]]]
  /\ rounds' = rounds (+) r.rounds
  /\ ledger' = ledger (+) r.ledger

\* The elements of S in ascending order.
RECURSIVE SeqOf(_)
SeqOf(S) ==
  IF S = {} THEN <<>>
  ELSE LET x == CHOOSE y \in S : \A z \in S : y <= z IN <<x>> \o SeqOf(S \ {x})

\* One write of a transaction body: the document it updates or inserts
\* (users, bids, auctions), or the insert into rounds or ledger.
Write(kind, a, u) == [kind |-> kind, a |-> a, u |-> u]

\* The bid update, user update and ledger insert a refund or settlement loop
\* issues for each bid of `order`.
RECURSIVE EachBid(_, _)
EachBid(a, order) ==
  IF order = <<>> THEN <<>>
  ELSE <<Write("bids", a, order[1]), Write("users", 0, order[1]), Write("ledger", a, order[1])>>
       \o EachBid(a, Tail(order))

\* The writes of a body that ran through on snapshot s with result r, in the
\* order the code issues them.
WriteOrder(op, a, u, s, r) ==
  CASE op = "topupUser" -> <<Write("users", 0, u), Write("ledger", 0, u)>>
    [] op = "startAuction" -> <<Write("auctions", a, 0)>>
    [] op = "cancelAuction" ->
         <<Write("auctions", a, 0)>> \o EachBid(a, SeqOf(ActiveUsers(s.bids, a)))
    [] op = "placeBid" ->
         <<Write("users", 0, u), Write("bids", a, u), Write("ledger", a, u), Write("auctions", a, 0)>>
    [] op = "withdrawBid" ->
         <<Write("bids", a, u), Write("users", 0, u), Write("ledger", a, u), Write("auctions", a, 0)>>
    [] op = "settleClosingAuction" ->
         IF r.auctions[a] = s.auctions[a] THEN <<>>
         ELSE LET winnerBids == WinnerBids(s, a)
                  won == {winnerBids[i] : i \in DOMAIN winnerBids}
                  rest == IF r.auctions[a].state = "ended"
                          THEN SeqOf(ActiveUsers(s.bids, a) \ won) ELSE <<>>
              IN <<Write("rounds", a, 0)>> \o EachBid(a, winnerBids) \o EachBid(a, rest)
                 \o <<Write("auctions", a, 0)>>

\* The store refuses write w of a transaction on snapshot s: the document was
\* changed after the snapshot, or a unique index holds the key already.
Refused(w, s, r) ==
  CASE w.kind = "users" -> users[w.u] # s.users[w.u]
    [] w.kind = "bids" -> bids[w.a][w.u] # s.bids[w.a][w.u]
    [] w.kind = "auctions" -> auctions[w.a] # s.auctions[w.a]
    [] w.kind = "rounds" -> DuplicateRound(r)
    [] w.kind = "ledger" -> FALSE

RECURSIVE HeldPrefix(_, _, _)
HeldPrefix(ws, s, r) ==
  IF ws = <<>> \/ Refused(ws[1], s, r) THEN <<>>
  ELSE <<ws[1]>> \o HeldPrefix(Tail(ws), s, r)

\* What the transaction has written when it stops: the writes issued before
\* the first refused one.  A body that throws an error of its own does so
\* before its first write takes effect.
HeldWrites(op, a, u, s, r) ==
  LET ws == IF r.err = "OK" THEN HeldPrefix(WriteOrder(op, a, u, s, r), s, r) ELSE <<>>
      has(kind, b, v) == \E i \in DOMAIN ws : ws[i] = Write(kind, b, v)
      kept == {e \in BagToSet(r.ledger) : has("ledger", e.auctionId, e.userId)}
  IN [err |-> r.err,
      auctions |-> [b \in Auctions |->
                      IF has("auctions", b, 0) THEN r.auctions[b] ELSE s.auctions[b]],
      bids |-> [b \in Auctions |-> [v \in Users |->
                  IF has("bids", b, v) THEN r.bids[b][v] ELSE s.bids[b][v]]],
      users |-> [v \in Users |-> IF has("users", 0, v) THEN r.users[v] ELSE s.users[v]],
      rounds |-> IF has("rounds", a, 0) THEN r.rounds ELSE EmptyBag,
      ledger |-> [e \in kept |-> CopiesIn(e, r.ledger)]]

\* Writes that outlive the transaction they were issued in, as when they are
\* sent without the session.
AbortKeepsWrites(s, h) == Commit(s, h)

\* session.withTransaction aborts when the body throws: none of the writes
\* held by the transaction reaches the store.
Abort(s, h) == UNCHANGED dbVars

----------------------------------------------------------------------------
(* Client requests: each slot runs one service call inside withTxn *)

NoSnap == [auctions |-> <<>>, bids |-> <<>>, users |-> <<>>]

IdleTxn == [op |-> "idle", a |-> 0, u |-> 0, amt |-> 0, attempt |-> 0, now |-> NoTime, snap |-> NoSnap]

Request(op, a, u, amt) ==
  [op |-> op, a |-> a, u |-> u, amt |-> amt, attempt |-> 1, now |-> now,
   snap |-> Reads(op, a, u)]

\* The body of the call in slot record x, run on its snapshot.
Body(x) ==
  CASE x.op = "topupUser" -> topupUser(x.snap, x.now, x.u, x.amt)
    [] x.op = "startAuction" -> startAuction(x.snap, x.now, x.a)
    [] x.op = "cancelAuction" -> cancelAuction(x.snap, x.now, x.a)
    [] x.op = "placeBid" -> placeBid(x.snap, x.now, x.a, x.u, x.amt)
    [] x.op = "withdrawBid" -> withdrawBid(x.snap, x.now, x.a, x.u)

\* What the transaction of slot record x holds when it stops.
TxnHeld(x) == HeldWrites(x.op, x.a, x.u, x.snap, Body(x))

\* A call whose body throws on its first snapshot is aborted without a write
\* and is never retried: Call* start the calls whose first run gets through.
Viable(x) == Body(x).err = "OK"

\* Number of reserve and unreserve entries: bounds how often bidders act.
BidderEntries ==
  LET S == {e \in BagToSet(ledger) : e.type \in {"reserve", "unreserve"}}
  IN SumOver(S, [e \in S |-> CopiesIn(e, ledger)])

engineVars == <<engineLock, tokenCtr, engine>>

CreateAuction(a) ==
  /\ auctions[a].state = "absent"
  /\ \E input \in AuctionInputs : auctions' = [auctions EXCEPT ![a] = CreateAuctionDoc(input)]
  /\ UNCHANGED <<now, users, bids, rounds, ledger, txn, engineVars, call>>

CreateAuctionFrom(a, inputs) ==
  /\ auctions[a].state = "absent"
  /\ \E input \in inputs : auctions' = [auctions EXCEPT ![a] = CreateAuctionDoc(input)]
  /\ UNCHANGED <<now, users, bids, rounds, ledger, txn, engineVars, call>>

CreateSnipeAuction(a) ==
  /\ auctions[a].state = "absent"
  /\ \E input \in SnipeInputs : auctions' = [auctions EXCEPT ![a] = CreateAuctionDoc(input)]
  /\ UNCHANGED <<now, users, bids, rounds, ledger, txn, engineVars, call>>

CallTopupUser(c, U) ==
  /\ txn[c].op = "idle"
  /\ \E u \in U, amount \in TopupAmounts :
       /\ users[u].totalTopups + amount <= MaxTopup
       /\ Viable(Request("topupUser", 0, u, amount))
       /\ txn' = [txn EXCEPT ![c] = Request("topupUser", 0, u, amount)]
  /\ UNCHANGED <<now, dbVars, engineVars, call>>

CallStartAuction(c) ==
  /\ txn[c].op = "idle"
  /\ \E a \in Auctions :
       /\ Viable(Request("startAuction", a, 0, 0))
       /\ txn' = [txn EXCEPT ![c] = Request("startAuction", a, 0, 0)]
  /\ UNCHANGED <<now, dbVars, engineVars, call>>

CallCancelAuction(c) ==
  /\ txn[c].op = "idle"
  /\ \E a \in Auctions :
       /\ Viable(Request("cancelAuction", a, 0, 0))
       /\ txn' = [txn EXCEPT ![c] = Request("cancelAuction", a, 0, 0)]
  /\ UNCHANGED <<now, dbVars, engineVars, call>>

CallPlaceBid(c, U, maxEntries) ==
  /\ txn[c].op = "idle"
  /\ BidderEntries < maxEntries
  /\ \E a \in Auctions, u \in U, amount \in BidAmounts :
       /\ Viable(Request("placeBid", a, u, amount))
       /\ txn' = [txn EXCEPT ![c] = Request("placeBid", a, u, amount)]
  /\ UNCHANGED <<now, dbVars, engineVars, call>>

CallWithdrawBid(c, U, maxEntries) ==
  /\ txn[c].op = "idle"
  /\ BidderEntries < maxEntries
  /\ \E a \in Auctions, u \in U :
       /\ Viable(Request("withdrawBid", a, u, 0))
       /\ txn' = [txn EXCEPT ![c] = Request("withdrawBid", a, u, 0)]
  /\ UNCHANGED <<now, dbVars, engineVars, call>>

\* The same calls, made whether or not their body gets through: a call that
\* throws ends in TxnFail.  maxEntries bounds the calls that get through.
RequestStartAuction(c, a) ==
  /\ txn[c].op = "idle"
  /\ txn' = [txn EXCEPT ![c] = Request("startAuction", a, 0, 0)]
  /\ UNCHANGED <<now, dbVars, engineVars, call>>

RequestCancelAuction(c, a) ==
  /\ txn[c].op = "idle"
  /\ txn' = [txn EXCEPT ![c] = Request("cancelAuction", a, 0, 0)]
  /\ UNCHANGED <<now, dbVars, engineVars, call>>

RequestPlaceBid(c, a, U, maxEntries) ==
  /\ txn[c].op = "idle"
  /\ \E u \in U, amount \in 0..MaxBid :
       /\ Viable(Request("placeBid", a, u, amount)) => BidderEntries < maxEntries
       /\ txn' = [txn EXCEPT ![c] = Request("placeBid", a, u, amount)]
  /\ UNCHANGED <<now, dbVars, engineVars, call>>

RequestWithdrawBid(c, a, U, maxEntries) ==
  /\ txn[c].op = "idle"
  /\ \E u \in U :
       /\ Viable(Request("withdrawBid", a, u, 0)) => BidderEntries < maxEntries
       /\ txn' = [txn EXCEPT ![c] = Request("withdrawBid", a, u, 0)]
  /\ UNCHANGED <<now, dbVars, engineVars, call>>

\* The transaction commits: all its writes become visible at once.
TxnCommit(c) ==
  /\ txn[c].op # "idle"
  /\ \E r \in {Body(txn[c])} :
       "COMMIT" \in TxnOutcomes(txn[c].snap, r) /\ Commit(txn[c].snap, r)
  /\ txn' = [txn EXCEPT ![c] = IdleTxn]
  /\ UNCHANGED <<now, engineVars, call>>

\* withTxn runs the body again, with a new snapshot and a new `now`.
TxnRetry(c) ==
  /\ txn[c].op # "idle"
  /\ \E r \in {Body(txn[c])} : \E o \in TxnOutcomes(txn[c].snap, r) :
       /\ o # "COMMIT"
       /\ Retries(o, txn[c].attempt, txn[c].op = "placeBid")
  /\ Abort(txn[c].snap, TxnHeld(txn[c]))
  /\ txn' = [txn EXCEPT ![c] = [@ EXCEPT !.attempt = @ + 1, !.now = now,
                                    !.snap = Reads(txn[c].op, txn[c].a, txn[c].u)]]
  /\ UNCHANGED <<now, engineVars, call>>

\* The call fails: the transaction is aborted and the error surfaces.
TxnFail(c) ==
  /\ txn[c].op # "idle"
  /\ \E r \in {Body(txn[c])} : \E o \in TxnOutcomes(txn[c].snap, r) :
       /\ o # "COMMIT"
       /\ ~Retries(o, txn[c].attempt, txn[c].op = "placeBid")
  /\ Abort(txn[c].snap, TxnHeld(txn[c]))
  /\ txn' = [txn EXCEPT ![c] = IdleTxn]
  /\ UNCHANGED <<now, engineVars, call>>

\* Time passes, up to `limit`.  Before any auction runs nothing reads the
\* clock but to store it, so time is followed from the first start.
AdvanceClock(limit) ==
  /\ \E a \in Auctions : auctions[a].state = "running"
  /\ \E d \in TimeSteps : now + d <= limit /\ now' = now + d
  /\ UNCHANGED <<dbVars, txn, engineVars, call>>

\* Time passes until one of the given instants.
\* Time passes to one of the given instants, whatever the auctions' state.
ClockTo(instants) ==
  /\ \E t \in instants : t > now /\ now' = t
  /\ UNCHANGED <<dbVars, txn, engineVars, call>>

AdvanceClockTo(instants) ==
  /\ \E a \in Auctions : auctions[a].state = "running"
  /\ \E t \in instants : t > now /\ now' = t
  /\ UNCHANGED <<dbVars, txn, engineVars, call>>

----------------------------------------------------------------------------
(* The round engine: startAuctionEngine's tick, one process per p *)

NoOwner == <<0, 0>>

NoLock == [ownerId |-> NoOwner, expiresAt |-> NoTime]

\* recovered and closed count the calls of settleClosingAuction the tick in
\* flight has made from its recovery loop and from its due loop.
IdleEngine(incarnation) ==
  [pc |-> "idle", incarnation |-> incarnation, tickNow |-> NoTime, queue |-> <<>>,
   phase |-> "none", a |-> 0, token |-> NoToken, attempt |-> 0, now |-> NoTime, snap |-> NoSnap,
   stopped |-> FALSE, recovered |-> 0, closed |-> 0]

\* The process back at rest between two ticks: inFlight = false, the stopped
\* flag as it is.
RestingEngine(e) == [IdleEngine(e.incarnation) EXCEPT !.stopped = e.stopped]

\* engineOwnerId = new ObjectId(): one per started process.
OwnerId(p) == <<p, engine[p].incarnation>>

\* A filter that matches the lock whoever owns it.
LockMatchesAnyOwner(lock, ownerId, t) == TRUE

\* The filter of locks.findOneAndUpdate: the lock is mine, or has expired.
LockMatches(lock, ownerId, t) ==
  lock.ownerId = ownerId \/ lock.expiresAt <= t

\* tryAcquireEngineLock: the upsert inserts when no document exists, updates a
\* matching one, and fails on the unique _id (reported as: not leader) otherwise.
LockAcquired(lock, ownerId, t) ==
  lock = NoLock \/ LockMatches(lock, ownerId, t)

\* A recovery query that finds nothing.
IsClosingNever(auction) == FALSE

\* The due filter: state running, round open, roundEndsAt or endsAt <= threshold.
\* A due check that does not look at roundState.
IsDueAnyRoundState(auction, threshold) ==
  /\ auction.state = "running"
  /\ \/ auction.roundEndsAt # NoTime /\ auction.roundEndsAt <= threshold
     \/ auction.endsAt # NoTime /\ auction.endsAt <= threshold

IsDue(auction, threshold) ==
  /\ auction.state = "running"
  /\ auction.roundState = "open"
  /\ \/ auction.roundEndsAt # NoTime /\ auction.roundEndsAt <= threshold
     \/ auction.endsAt # NoTime /\ auction.endsAt <= threshold

\* A threshold without the grace period.
ThresholdNoGrace(tickNow) == tickNow

Threshold(tickNow) == tickNow - closeGraceMs

IsClosing(auction) ==
  auction.state = "running" /\ auction.roundState = "closing" /\ auction.closingToken # NoToken

\* A tick that finds no closing and no due round only renews the lock: the
\* ticks followed are those that start when some round is closing or due.
TickBegin(p) ==
  /\ engine[p].pc = "idle"
  /\ ~engine[p].stopped
  /\ \E a \in Auctions : IsClosing(auctions[a]) \/ IsDue(auctions[a], Threshold(now))
  /\ engine' = [engine EXCEPT ![p] = [@ EXCEPT !.pc = "acquire", !.tickNow = now]]
  /\ UNCHANGED <<now, dbVars, txn, engineLock, tokenCtr, call>>

TickLeader(p) ==
  /\ engine[p].pc = "acquire"
  /\ LockAcquired(engineLock, OwnerId(p), engine[p].tickNow)
  /\ engineLock' = [ownerId |-> OwnerId(p), expiresAt |-> engine[p].tickNow + lockTtlMs]
  /\ engine' = [engine EXCEPT ![p] = [@ EXCEPT !.pc = "findClosing"]]
  /\ UNCHANGED <<now, dbVars, txn, tokenCtr, call>>

TickNotLeader(p) ==
  /\ engine[p].pc = "acquire"
  /\ ~LockAcquired(engineLock, OwnerId(p), engine[p].tickNow)
  /\ engine' = [engine EXCEPT ![p] = RestingEngine(@)]
  /\ UNCHANGED <<now, dbVars, txn, engineLock, tokenCtr, call>>

\* The TTL index on engineLocks.expiresAt removes an expired lock document.
LockExpires ==
  /\ engineLock # NoLock
  /\ engineLock.expiresAt <= now
  /\ engineLock' = NoLock
  /\ UNCHANGED <<now, dbVars, txn, tokenCtr, engine, call>>

FindClosing(p) ==
  /\ engine[p].pc = "findClosing"
  /\ engine' = [engine EXCEPT ![p] =
       [@ EXCEPT !.pc = "recover",
                 !.queue = LET found == SeqOf({a \in Auctions : IsClosing(auctions[a])})
                           IN [i \in 1..Min(findLimit, Len(found)) |->
                                 <<found[i], auctions[found[i]].closingToken>>]]]
  /\ UNCHANGED <<now, dbVars, txn, engineLock, tokenCtr, call>>

\* settleClosingAuction(a._id, a.closingToken) for the next recovered closing.
RecoverNext(p) ==
  /\ engine[p].pc = "recover"
  /\ engine[p].queue # <<>>
  /\ engine' = [engine EXCEPT ![p] =
       [@ EXCEPT !.pc = "settle", !.phase = "recover", !.queue = Tail(@),
                 !.a = engine[p].queue[1][1], !.token = engine[p].queue[1][2],
                 !.attempt = 1, !.now = now, !.recovered = @ + 1,
                 !.snap = Reads("settleClosingAuction", engine[p].queue[1][1], 0)]]
  /\ UNCHANGED <<now, dbVars, txn, engineLock, tokenCtr, call>>

\* A due query without .limit(5).
FindDueNoLimit(p) ==
  /\ engine[p].pc = "recover"
  /\ engine[p].queue = <<>>
  /\ engine' = [engine EXCEPT ![p] =
       [@ EXCEPT !.pc = "close",
                 !.queue = LET found == SeqOf({a \in Auctions :
                                                 IsDue(auctions[a], Threshold(engine[p].tickNow))})
                           IN [i \in 1..Len(found) |-> <<found[i], NoToken>>]]]
  /\ UNCHANGED <<now, dbVars, txn, engineLock, tokenCtr, call>>

FindDue(p) ==
  /\ engine[p].pc = "recover"
  /\ engine[p].queue = <<>>
  /\ engine' = [engine EXCEPT ![p] =
       [@ EXCEPT !.pc = "close",
                 !.queue = LET found == SeqOf({a \in Auctions :
                                                 IsDue(auctions[a], Threshold(engine[p].tickNow))})
                           IN [i \in 1..Min(findLimit, Len(found)) |-> <<found[i], NoToken>>]]]
  /\ UNCHANGED <<now, dbVars, txn, engineLock, tokenCtr, call>>

\* The open -> closing findOneAndUpdate succeeds.
CloseRound(p) ==
  /\ engine[p].pc = "close"
  /\ engine[p].queue # <<>>
  /\ LET a == engine[p].queue[1][1]
     IN /\ IsDue(auctions[a], Threshold(engine[p].tickNow))
        /\ auctions' = [auctions EXCEPT ![a] =
             [@ EXCEPT !.roundState = "closing",
                       !.closingToken = tokenCtr + 1,
                       !.closingStartedAt = engine[p].tickNow,
                       !.version = @ + 1]]
        /\ tokenCtr' = tokenCtr + 1
        /\ engine' = [engine EXCEPT ![p] =
             [@ EXCEPT !.pc = "settleBegin", !.phase = "close", !.queue = Tail(@),
                       !.a = a, !.token = tokenCtr + 1]]
  /\ UNCHANGED <<now, users, bids, rounds, ledger, txn, engineLock, call>>

\* The findOneAndUpdate matches nothing: if (!lock) continue.
CloseMiss(p) ==
  /\ engine[p].pc = "close"
  /\ engine[p].queue # <<>>
  /\ ~IsDue(auctions[engine[p].queue[1][1]], Threshold(engine[p].tickNow))
  /\ engine' = [engine EXCEPT ![p] = [@ EXCEPT !.queue = Tail(@)]]
  /\ UNCHANGED <<now, dbVars, txn, engineLock, tokenCtr, call>>

SettleBegin(p) ==
  /\ engine[p].pc = "settleBegin"
  /\ engine' = [engine EXCEPT ![p] =
       [@ EXCEPT !.pc = "settle", !.attempt = 1, !.now = now, !.closed = @ + 1,
                 !.snap = Reads("settleClosingAuction", engine[p].a, 0)]]
  /\ UNCHANGED <<now, dbVars, txn, engineLock, tokenCtr, call>>

SettleBody(e) == settleClosingAuction(e.snap, e.now, e.a, e.token)

SettleHeld(e) == HeldWrites("settleClosingAuction", e.a, 0, e.snap, SettleBody(e))

\* Back in the tick's loop after settleClosingAuction returned.
AfterSettle(e) ==
  [e EXCEPT !.pc = e.phase, !.a = 0, !.token = NoToken, !.attempt = 0, !.now = NoTime,
            !.snap = NoSnap]

SettleCommit(p) ==
  /\ engine[p].pc = "settle"
  /\ \E r \in {SettleBody(engine[p])} :
       "COMMIT" \in TxnOutcomes(engine[p].snap, r) /\ Commit(engine[p].snap, r)
  /\ engine' = [engine EXCEPT ![p] = AfterSettle(@)]
  /\ UNCHANGED <<now, txn, engineLock, tokenCtr, call>>

SettleRetry(p) ==
  /\ engine[p].pc = "settle"
  /\ \E r \in {SettleBody(engine[p])} : \E o \in TxnOutcomes(engine[p].snap, r) :
       o # "COMMIT" /\ Retries(o, engine[p].attempt, FALSE)
  /\ Abort(engine[p].snap, SettleHeld(engine[p]))
  /\ engine' = [engine EXCEPT ![p] = [@ EXCEPT !.attempt = @ + 1, !.now = now,
                 !.snap = Reads("settleClosingAuction", engine[p].a, 0)]]
  /\ UNCHANGED <<now, txn, engineLock, tokenCtr, call>>

\* The .catch of settleClosingAuction logs the error; nothing was written.
SettleFail(p) ==
  /\ engine[p].pc = "settle"
  /\ \E r \in {SettleBody(engine[p])} : \E o \in TxnOutcomes(engine[p].snap, r) :
       o # "COMMIT" /\ ~Retries(o, engine[p].attempt, FALSE)
  /\ Abort(engine[p].snap, SettleHeld(engine[p]))
  /\ engine' = [engine EXCEPT ![p] = AfterSettle(@)]
  /\ UNCHANGED <<now, txn, engineLock, tokenCtr, call>>

TickEnd(p) ==
  /\ engine[p].pc = "close"
  /\ engine[p].queue = <<>>
  /\ engine' = [engine EXCEPT ![p] = RestingEngine(@)]
  /\ UNCHANGED <<now, dbVars, txn, engineLock, tokenCtr, call>>

\* stop(): sets the stopped flag and clears the interval timer; it does not
\* wait for, or interrupt, a tick that is in flight.
Stop(p) ==
  /\ ~engine[p].stopped
  /\ engine' = [engine EXCEPT ![p] = [@ EXCEPT !.stopped = TRUE]]
  /\ UNCHANGED <<now, dbVars, txn, engineLock, tokenCtr, call>>

\* The process dies inside a tick and is started again with a new owner id;
\* an open transaction of it is aborted by the store.
Crash(p) ==
  /\ engine[p].pc # "idle"
  /\ engine[p].incarnation < MaxIncarnation
  /\ engine' = [engine EXCEPT ![p] = IdleEngine(@.incarnation + 1)]
  /\ UNCHANGED <<now, dbVars, txn, engineLock, tokenCtr, call>>

----------------------------------------------------------------------------
(* The system *)

\* The empty store, no request, the engine processes just started.
EmptyStore(ids) ==
  /\ now = 0
  /\ users = [u \in Users |-> NewUser]
  /\ auctions = [a \in ids |-> NoAuction]
  /\ bids = [a \in ids |-> [u \in Users |-> NoBid]]
  /\ rounds = EmptyBag
  /\ ledger = EmptyBag
  /\ engineLock = NoLock
  /\ tokenCtr = 0
  /\ txn = [c \in Clients |-> IdleTxn]
  /\ engine = [p \in Procs |-> IdleEngine(0)]

InitStore == EmptyStore(AuctionIds)

NoCall == [fn |-> "none"]

Init == InitStore /\ call = NoCall

\* Every service call a client can make for the users of U, and how its
\* transaction ends.  maxEntries bounds the reserve and unreserve entries.
ClientNext(c, U, maxEntries) ==
  \/ CallTopupUser(c, U)
  \/ CallStartAuction(c)
  \/ CallCancelAuction(c)
  \/ CallPlaceBid(c, U, maxEntries)
  \/ CallWithdrawBid(c, U, maxEntries)
  \/ TxnCommit(c)
  \/ TxnRetry(c)
  \/ TxnFail(c)

\* A client that funds users, starts auctions and bids.
BidderNext(c, U, maxEntries) ==
  \/ CallTopupUser(c, U)
  \/ CallStartAuction(c)
  \/ CallPlaceBid(c, U, maxEntries)
  \/ TxnCommit(c)
  \/ TxnRetry(c)
  \/ TxnFail(c)

\* The steps of a tick every engine process can take on its own.
TickNext(p) ==
  \/ TickBegin(p)
  \/ TickLeader(p)
  \/ FindClosing(p)
  \/ FindDue(p)
  \/ CloseRound(p)
  \/ CloseMiss(p)
  \/ SettleBegin(p)
  \/ SettleCommit(p)
  \/ SettleRetry(p)
  \/ TickEnd(p)

\* One auction, one client, one engine process that can crash and restart.
\* A restarted process meets the lock and the closing round its previous
\* incarnation left (TickNotLeader, RecoverNext).  SettleFail needs a
\* second process settling the same round and is part of NextEngines.
Next ==
  \/ CreateAuction(1)
  \/ ClientNext(1, Bidders, MaxLedger)
  \/ TickNext(1)
  \/ TickNotLeader(1)
  \/ RecoverNext(1)
  \/ Crash(1)
  \/ LockExpires
  \/ AdvanceClock(MaxTime)

Spec == Init /\ [][Next]_vars

\* Any step of the tick of process p.
EngineStep(p) == TickNext(p) \/ TickNotLeader(p) \/ RecoverNext(p)

\* The same system with its scheduling: setInterval keeps calling tick, every
\* awaited operation of a tick returns, and time passes.  Nothing obliges a
\* client to call or the process to crash.
NextRecovery ==
  \/ CreateAuction(1)
  \/ ClientNext(1, {1}, MaxLedger)
  \/ TickNext(1)
  \/ TickNotLeader(1)
  \/ RecoverNext(1)
  \/ Crash(1)
  \/ LockExpires
  \/ AdvanceClock(MaxTimeRecovery)

SpecRecovery ==
  /\ Init /\ [][NextRecovery]_vars
  /\ WF_vars(EngineStep(1))
  /\ WF_vars(AdvanceClock(MaxTimeRecovery))

\* One auction, one bidding client, two engine processes.  A process that
\* takes no further step is a crashed one: its open transaction never
\* commits and its lock stays until it expires.
NextEngines ==
  \/ CreateAuction(1)
  \/ BidderNext(1, Bidders, MaxLedger)
  \/ \E p \in Procs :
       \/ TickNext(p)
       \/ TickNotLeader(p)
       \/ RecoverNext(p)
       \/ SettleFail(p)
  \/ LockExpires
  \/ AdvanceClock(MaxTimeEngines)

SpecEngines == Init /\ [][NextEngines]_vars

\* Two auctions, one client, one engine process that never crashes: it is
\* always the leader, leaves no closing round behind, and its lock does not
\* expire before MaxTimeAuctions.
NextAuctions ==
  \/ \E a \in Auctions : CreateAuction(a)
  \/ ClientNext(1, Bidders, MaxLedger)
  \/ TickNext(1)
  \/ AdvanceClock(MaxTimeAuctions)

SpecAuctions == Init /\ [][NextAuctions]_vars

\* One auction with more bidders than items: three users bid, one engine
\* process settles.
NextSupply ==
  \/ CreateAuction(1)
  \/ BidderNext(1, Users, MaxLedgerSupply)
  \/ CallCancelAuction(1)
  \/ TickNext(1)
  \/ LockExpires
  \/ AdvanceClock(MaxTime)

SpecSupply == Init /\ [][NextSupply]_vars

\* One auction, one client whose calls may fail, one engine process.  The
\* clock stops at the last millisecond of the first round, at its end and at
\* the tick that closes it.
NextBids ==
  \/ CreateAuction(1)
  \/ CallTopupUser(1, Bidders)
  \/ RequestStartAuction(1, 1)
  \/ RequestCancelAuction(1, 1)
  \/ RequestPlaceBid(1, 1, Bidders, MaxLedgerSupply)
  \/ RequestWithdrawBid(1, 1, Bidders, MaxLedgerSupply)
  \/ TxnCommit(1)
  \/ TxnRetry(1)
  \/ TxnFail(1)
  \/ TickNext(1)
  \/ AdvanceClockTo(BidInstants)

SpecBids == Init /\ [][NextBids]_vars

\* One open round and two clients bidding at once for the same users; the
\* clock stands still, so the round stays open.
NextRace ==
  \/ CreateAuction(1)
  \/ CallTopupUser(1, Bidders)
  \/ CallStartAuction(1)
  \/ \E c \in Clients :
       \/ CallPlaceBid(c, Bidders, MaxLedgerSupply)
       \/ TxnCommit(c)
       \/ TxnRetry(c)
       \/ TxnFail(c)

SpecRace == Init /\ [][NextRace]_vars

\* One auction with anti-sniping, one engine process and two clients, each
\* bidding for a user of its own.
NextSnipe ==
  \/ CreateSnipeAuction(1)
  \/ CallTopupUser(1, Bidders)
  \/ CallStartAuction(1)
  \/ CallCancelAuction(1)
  \/ CallWithdrawBid(1, {1}, MaxLedger)
  \/ \E c \in Clients :
       \/ CallPlaceBid(c, {c}, MaxLedger)
       \/ TxnCommit(c)
       \/ TxnRetry(c)
       \/ TxnFail(c)
  \/ TickNext(1)
  \/ AdvanceClockTo(SnipeInstants)

SpecSnipe == Init /\ [][NextSnipe]_vars

----------------------------------------------------------------------------
(* What the audits read (auditGlobal, auditAuction, verifyInvariants) *)

\* selectWinners(bids, n) is called.
SelectWinners ==
  /\ call.fn = "selectWinners" /\ call.out = NoOut
  /\ call' = [call EXCEPT !.out = selectWinners(call.bids, call.n)]
  /\ UNCHANGED <<now, dbVars, txn, engineVars>>

\* It is called again with two neighbouring bids of the array exchanged.
SelectReordered ==
  /\ call.fn = "selectWinners" /\ call.out # NoOut
  /\ \E i \in 1..(Len(call.bids) - 1) :
       LET swapped == [call.bids EXCEPT ![i] = call.bids[i + 1], ![i + 1] = call.bids[i]]
       IN call' = [call EXCEPT !.bids = swapped, !.out = selectWinners(swapped, call.n)]
  /\ UNCHANGED <<now, dbVars, txn, engineVars>>

InitRank ==
  /\ InitStore
  /\ call \in [fn : {"selectWinners"}, bids : RankInputs, n : -1..(MaxRankLen + 1), out : {NoOut}]

NextRank == SelectWinners \/ SelectReordered

\* One auction created from EndInputs, two bidders, one engine process.
NextEnd ==
  \/ CreateAuctionFrom(1, EndInputs)
  \/ BidderNext(1, Bidders, MaxLedgerSupply)
  \/ CallCancelAuction(1)
  \/ TickNext(1)
  \/ AdvanceClock(MaxTime)

SpecEnd == Init /\ [][NextEnd]_vars

\* One auction created from SnipeInputs or WindowInputs and two clients that
\* call startAuction on it, at 0 or at 1 s.
NextStart ==
  \/ CreateAuctionFrom(1, SnipeInputs \cup WindowInputs)
  \/ \E c \in Clients :
       \/ RequestStartAuction(c, 1)
       \/ TxnCommit(c)
       \/ TxnRetry(c)
       \/ TxnFail(c)
  \/ ClockTo({1000})

SpecStart == Init /\ [][NextStart]_vars

\* One auction of one winner per round whose maximum duration ends it at its
\* first or second settlement, one client whose calls may fail, one engine
\* process.
NextStatus ==
  \/ CreateAuctionFrom(1, SnipeInputs)
  \/ CallTopupUser(1, Bidders)
  \/ RequestStartAuction(1, 1)
  \/ RequestCancelAuction(1, 1)
  \/ RequestPlaceBid(1, 1, Bidders, MaxLedgerSupply)
  \/ RequestWithdrawBid(1, 1, Bidders, MaxLedgerSupply)
  \/ TxnCommit(1)
  \/ TxnRetry(1)
  \/ TxnFail(1)
  \/ TickNext(1)
  \/ AdvanceClockTo(SnipeInstants)

SpecStatus == Init /\ [][NextStatus]_vars

SpecRank == InitRank /\ [][NextRank]_vars

\* One client bidding around the anti-snipe window; no engine, so the first
\* round stays open.
NextWindow ==
  \/ CreateAuctionFrom(1, WindowInputs)
  \/ CallTopupUser(1, Bidders)
  \/ CallStartAuction(1)
  \/ CallPlaceBid(1, Bidders, MaxLedgerSupply)
  \/ TxnCommit(1)
  \/ AdvanceClockTo(WindowInstants)

SpecWindow == Init /\ [][NextWindow]_vars

WonUsers(a) == {u \in Users : bids[a][u].status = "won"}

ActiveAmount(a, u) == IF bids[a][u].status = "active" THEN bids[a][u].amount ELSE 0

ActiveBidsSum(a) == SumOver(Users, [u \in Users |-> ActiveAmount(a, u)])

PaidSum(a) ==
  SumOver(Users, [u \in Users |->
    IF bids[a][u].status = "won" THEN bids[a][u].settlement.paid ELSE 0])

\* Number of ledger entries of `type` written for user u in auction a.
EntryCount(type, u, a) ==
  LET S == {e \in BagToSet(ledger) : e.type = type /\ e.userId = u /\ e.auctionId = a}
  IN SumOver(S, [e \in S |-> CopiesIn(e, ledger)])

----------------------------------------------------------------------------
(* Properties *)

\* C1: every user has totalTopups = available + reserved + spent, and none of
\* available, reserved and spent is negative, in every reachable state.
C1_MoneyConservation ==
  \A u \in Users :
    /\ users[u].totalTopups = users[u].available + users[u].reserved + users[u].spent
    /\ users[u].available >= 0
    /\ users[u].reserved >= 0
    /\ users[u].spent >= 0

\* A winner that paid less than it had topped up, while another user holds a
\* reservation: topupUser, placeBid and a settlement have all committed.
C1_Witness ==
  \E u, v \in Users :
    /\ users[u].spent > 0 /\ users[u].available > 0
    /\ users[v].reserved > 0

\* Number of Round documents persisted for (a, n).
RoundCount(a, n) ==
  LET S == {d \in BagToSet(rounds) : d.auctionId = a /\ d.roundNumber = n}
  IN SumOver(S, [d \in S |-> CopiesIn(d, rounds)])

\* Number of times the Round documents of auction a list user u as a winner.
WinnerListings(a, u) ==
  LET S == {d \in BagToSet(rounds) : d.auctionId = a}
  IN SumOver(S, [d \in S |->
       CopiesIn(d, rounds) * Cardinality({i \in DOMAIN d.winners : d.winners[i].userId = u})])

\* Has the settlement transaction of process p read its round as closing?
SettlesRound(p, a) ==
  /\ engine[p].pc = "settle"
  /\ engine[p].a = a
  /\ MatchesClosing(engine[p].snap.auctions[a], engine[p].token)

\* C2: at most one Round document exists per (auctionId, roundNumber) and a
\* round is settled at most once, whatever the engine processes do: every won
\* bid is listed by exactly one Round document and was charged by exactly one
\* spend entry, a user's spent is what its won bids paid, and a bid that is
\* won is never written again.
C2_SettledOnce ==
  /\ [](/\ \A d \in BagToSet(rounds) : RoundCount(d.auctionId, d.roundNumber) = 1
        /\ \A a \in Auctions, u \in Users :
             LET won == IF bids[a][u].status = "won" THEN 1 ELSE 0
             IN /\ WinnerListings(a, u) = won
                /\ EntryCount("spend", u, a) = won
        /\ \A u \in Users :
             users[u].spent =
               SumOver(Auctions, [a \in Auctions |->
                 IF bids[a][u].status = "won" THEN bids[a][u].settlement.paid ELSE 0]))
  /\ [][\A a \in Auctions, u \in Users :
          bids[a][u].status = "won" => bids'[a][u] = bids[a][u]]_vars

\* A round with a winner is settled while the settlement transaction of an
\* engine process, which read the same round as closing, is still open.
C2_Witness ==
  \E p \in Procs, a \in Auctions :
    /\ SettlesRound(p, a)
    /\ RoundCount(a, engine[p].snap.auctions[a].currentRound) = 1
    /\ WonUsers(a) # {}

\* C3: awardedCount never exceeds totalQuantity, and no step decreases an
\* auction's awardedCount or revenue.
C3_SupplyNeverExceeded ==
  /\ [](\A a \in Auctions : auctions[a].awardedCount <= auctions[a].totalQuantity)
  /\ [][\A a \in Auctions :
          /\ auctions'[a].awardedCount >= auctions[a].awardedCount
          /\ auctions'[a].revenue >= auctions[a].revenue]_vars

\* The supply ran out in a later round with more active bids than items left:
\* one bid of that round won the last item and another one lost.
C3_Witness ==
  \E a \in Auctions :
    /\ auctions[a].state = "ended" /\ auctions[a].endReason = "soldOut"
    /\ auctions[a].currentRound > 1
    /\ auctions[a].awardedCount = auctions[a].totalQuantity
    /\ \E u, v \in Users :
         /\ bids[a][u].status = "won" /\ bids[a][u].settlement.wonRound = auctions[a].currentRound
         /\ bids[a][v].status = "lost"

\* C4: the giftSerials of an auction's won bids are pairwise distinct and are
\* exactly 1..awardedCount, and awardedCount is the number of won bids.
C4_GiftSerials ==
  \A a \in Auctions :
    /\ \A u, v \in WonUsers(a) :
         bids[a][u].settlement.giftSerial = bids[a][v].settlement.giftSerial => u = v
    /\ {bids[a][u].settlement.giftSerial : u \in WonUsers(a)} = 1..auctions[a].awardedCount
    /\ Cardinality(WonUsers(a)) = auctions[a].awardedCount

\* Serials handed out by two different rounds of one auction.
C4_Witness ==
  \E a \in Auctions : \E u, v \in WonUsers(a) :
    /\ bids[a][u].settlement.wonRound < bids[a][v].settlement.wonRound
    /\ bids[a][u].settlement.giftSerial = 1
    /\ bids[a][v].settlement.giftSerial = 2

\* C5: a user's balance.reserved is the sum of the amounts of its active bids
\* over all auctions; so the reserved balances sum to the active bid amounts.
C5_ReservedMatchesActiveBids ==
  /\ \A u \in Users :
       users[u].reserved = SumOver(Auctions, [a \in Auctions |-> ActiveAmount(a, u)])
  /\ SumOver(Users, [u \in Users |-> users[u].reserved])
       = SumOver(Auctions, [a \in Auctions |-> ActiveBidsSum(a)])

\* A user that bid in two auctions: one bid has won, the other is still active.
C5_Witness ==
  \E u \in Users, a, b \in Auctions :
    /\ bids[a][u].status = "won"
    /\ bids[b][u].status = "active"
    /\ users[u].reserved > 0

\* C6: an auction's revenue is the sum of its spend ledger entries and the
\* sum of settlement.paid over its won bids.
C6_RevenueMatchesSpend ==
  \A a \in Auctions :
    /\ auctions[a].revenue = LedgerSum(ledger, a, "spend")
    /\ auctions[a].revenue = PaidSum(a)

\* Two winners of one round paid the clearing price, below the higher bid.
C6_Witness ==
  \E a \in Auctions : \E u, v \in WonUsers(a) :
    /\ u # v
    /\ bids[a][u].settlement.refunded > 0
    /\ auctions[a].revenue = 2 * bids[a][u].settlement.paid
    /\ auctions[a].revenue > 0

\* C7: the amounts of an auction's active bids sum to its reserve entries
\* minus its unreserve, spend and refund entries.
C7_LedgerFlowMatchesActiveBids ==
  \A a \in Auctions :
    ActiveBidsSum(a) =
      LedgerSum(ledger, a, "reserve") - LedgerSum(ledger, a, "unreserve")
        - LedgerSum(ledger, a, "spend") - LedgerSum(ledger, a, "refund")

\* An auction whose ledger holds spend and refund entries of a settlement.
C7_Witness ==
  \E a \in Auctions :
    /\ LedgerSum(ledger, a, "spend") > 0
    /\ LedgerSum(ledger, a, "refund") > 0
    /\ LedgerSum(ledger, a, "reserve") > LedgerSum(ledger, a, "spend")

\* C8: an auction that is ended or cancelled has no active bid.
C8_NoActiveBidsWhenDone ==
  \A a \in Auctions :
    auctions[a].state \in {"ended", "cancelled"} => \A u \in Users : bids[a][u].status # "active"

\* An auction ended with a bid that lost, its amount back in available.
C8_Witness ==
  \E a \in Auctions, u \in Users :
    /\ auctions[a].state = "ended"
    /\ bids[a][u].status = "lost"
    /\ users[u].reserved = 0 /\ users[u].available = users[u].totalTopups

\* What tryAcquireEngineLock's filter and upsert accept from process p: no
\* lock document, p's own lock, or a lock that expired by p's `now`.
LockFreeFor(p) ==
  \/ engineLock = NoLock
  \/ engineLock.ownerId = OwnerId(p)
  \/ engineLock.expiresAt <= engine[p].tickNow

\* Process p acquired the lock in the tick it is in, and the lease it wrote
\* has not expired on the shared clock.
HoldsLease(p) ==
  /\ engine[p].pc \notin {"idle", "acquire"}
  /\ engine[p].tickNow + lockTtlMs > now

\* C9: tryAcquireEngineLock makes p the owner, with expiresAt = now + ttl, only
\* if the lock document is absent, owned by p or expired at p's `now`;
\* otherwise the lock is left as it is and the tick ends as not leader.  No
\* two processes hold an unexpired lease at once, and a lock owned by another
\* process is taken over or removed only once the shared clock has reached
\* its expiresAt.
C9_EngineLockExclusion ==
  /\ [][\A p \in Procs :
          (engine[p].pc = "acquire" /\ engine'[p].pc # "acquire") =>
            IF LockFreeFor(p)
            THEN /\ engine'[p].pc = "findClosing"
                 /\ engineLock' = [ownerId |-> OwnerId(p),
                                   expiresAt |-> engine[p].tickNow + lockTtlMs]
            ELSE /\ engine'[p].pc = "idle"
                 /\ engineLock' = engineLock]_vars
  /\ [](\A p, q \in Procs : (HoldsLease(p) /\ HoldsLease(q)) => p = q)
  /\ [][(engineLock # NoLock /\ engineLock'.ownerId # engineLock.ownerId)
          => engineLock.expiresAt <= now]_vars

\* Two processes are inside a tick as leaders: the lock of the first expired
\* and the second took it over.
C9_Witness ==
  \E p, q \in Procs :
    /\ p # q
    /\ engine[p].pc \notin {"idle", "acquire"}
    /\ engine[q].pc \notin {"idle", "acquire"}
    /\ engineLock.ownerId = OwnerId(q)
    /\ engine[p].tickNow < engine[q].tickNow

ClosingRound(a) == auctions[a].state = "running" /\ auctions[a].roundState = "closing"

CurrentStore == [auctions |-> auctions, bids |-> bids, users |-> users]

\* C10: while an auction's round is closing, placeBid and withdrawBid run on
\* the current state fail with NOT_OPEN, a placeBid or withdrawBid request on
\* that auction never ends with a write, the auction's bids stay as they are
\* as long as the round is closing, and they change only with the settlement
\* of the round or with cancelAuction.
C10_ClosingFence ==
  /\ [](\A a \in Auctions : ClosingRound(a) =>
          \A u \in Users :
            /\ \A amount \in BidAmounts :
                 placeBid(CurrentStore, now, a, u, amount).err = "NOT_OPEN"
            /\ withdrawBid(CurrentStore, now, a, u).err = "NOT_OPEN")
  /\ [][\A a \in Auctions : ClosingRound(a) =>
          /\ \A c \in Clients :
               (txn[c].op \in {"placeBid", "withdrawBid"} /\ txn[c].a = a /\ txn'[c] # txn[c])
                 => UNCHANGED dbVars
          /\ (auctions'[a].state = "running" /\ auctions'[a].roundState = "closing")
               => bids'[a] = bids[a]
          /\ bids'[a] # bids[a] => (auctions'[a].state = "cancelled" \/ rounds' # rounds)]_vars

\* A placeBid that began in the open round was met by the open -> closing
\* update and runs again, now on a snapshot of the closing round.
C10_Witness ==
  \E c \in Clients, a \in Auctions :
    /\ ClosingRound(a)
    /\ txn[c].op = "placeBid" /\ txn[c].a = a
    /\ txn[c].attempt = 2
    /\ txn[c].snap.auctions[a].roundState = "closing"
    /\ \E u \in Users : bids[a][u].status = "active"

\* The call in slot c stops without committing: its body throws, or the store
\* refuses one of its writes.
StopsShort(c) == "COMMIT" \notin TxnOutcomes(txn[c].snap, Body(txn[c]))

FirstFailingCheck(au, bid, user, t, newAmount) ==
  LET oldAmount == IF bid.status = "active" THEN bid.amount ELSE 0
  IN CASE au.state = "absent" -> "NOT_FOUND"
       [] OTHER ->
     CASE au.state # "running" \/ au.roundState # "open" \/ au.roundEndsAt = NoTime -> "NOT_OPEN"
       [] OTHER ->
     CASE t >= au.roundEndsAt -> "ROUND_ENDED"
       [] OTHER ->
     CASE bid.status \in {"won", "lost"} -> "BID_NOT_ACTIVE"
       [] OTHER ->
     CASE newAmount <= oldAmount -> "INVALID_INPUT"
       [] OTHER ->
     CASE user.available < newAmount - oldAmount -> "INSUFFICIENT_FUNDS"
       [] OTHER -> "OK"

\* C12: for a positive newAmount, what placeBid does on the state it reads is
\* decided by the first failing check in the order NOT_FOUND, NOT_OPEN,
\* ROUND_ENDED (now >= roundEndsAt), BID_NOT_ACTIVE (bid won or lost),
\* INVALID_INPUT (newAmount <= oldAmount, oldAmount being 0 unless the bid is
\* active), INSUFFICIENT_FUNDS (available < newAmount - oldAmount); it gets
\* through otherwise.  A bid at roundEndsAt - 1 passes the time check, a bid
\* at roundEndsAt fails ROUND_ENDED.
C12_PlaceBidOutcome ==
  \A c \in Clients :
    (txn[c].op = "placeBid" /\ txn[c].amt > 0) =>
      LET x == txn[c]
          au == x.snap.auctions[x.a]
      IN /\ Body(x).err = FirstFailingCheck(au, x.snap.bids[x.a][x.u], x.snap.users[x.u],
                                            x.now, x.amt)
         /\ (OpenForBids(au) /\ x.now = au.roundEndsAt - 1) => Body(x).err # "ROUND_ENDED"
         /\ (OpenForBids(au) /\ x.now = au.roundEndsAt) => Body(x).err = "ROUND_ENDED"

\* A bid placed in the last millisecond of the round stands, and a funded
\* bid made at roundEndsAt is failing ROUND_ENDED.
C12_Witness ==
  \E c \in Clients, v \in Users :
    LET x == txn[c]
    IN /\ x.op = "placeBid" /\ x.amt > 0 /\ v # x.u
       /\ OpenForBids(auctions[x.a])
       /\ x.now = auctions[x.a].roundEndsAt
       /\ users[x.u].available >= x.amt
       /\ Body(x).err = "ROUND_ENDED"
       /\ bids[x.a][v].status = "active"
       /\ bids[x.a][v].lastBidAt = auctions[x.a].roundEndsAt - 1

\* The step in which the placeBid call of slot c commits.
PlaceBidCommits(c) ==
  /\ txn[c].op = "placeBid"
  /\ txn'[c] = IdleTxn
  /\ ~StopsShort(c)
  /\ bids'[txn[c].a][txn[c].u] # bids[txn[c].a][txn[c].u]

\* C13 as stated: whenever a placeBid succeeds for a user who placed a bid on
\* the auction before, the amount it leaves is strictly greater than the
\* amount the earlier call left (only placeBid ever writes a bid's amount).
C13_EverySuccessiveBidIsGreater ==
  [][\A c \in Clients :
       (PlaceBidCommits(c) /\ bids[txn[c].a][txn[c].u].status # "none")
         => bids'[txn[c].a][txn[c].u].amount > bids[txn[c].a][txn[c].u].amount]_vars

\* C13, amended: successive successful placeBid calls strictly increase the
\* amount as long as the bid stayed active between them; a successful call on
\* a withdrawn bid makes it active again with its new positive amount, which
\* is measured against 0 and not against the amount withdrawn.
C13_RaisesAreMonotone ==
  [][\A c \in Clients :
       PlaceBidCommits(c) =>
         LET old == bids[txn[c].a][txn[c].u]
             new == bids'[txn[c].a][txn[c].u]
         IN /\ new.status = "active" /\ new.amount = txn[c].amt /\ new.amount > 0
            /\ old.status = "active" => new.amount > old.amount
            /\ old.status \in {"none", "withdrawn", "active"}]_vars

\* A bid that was raised: two reserve entries of 1 stand behind an active
\* bid of 2.
C13_Witness ==
  \E a \in Auctions, u \in Users :
    /\ bids[a][u].status = "active" /\ bids[a][u].amount = 2
    /\ EntryCount("reserve", u, a) = 2
    /\ EntryCount("unreserve", u, a) = 0

\* C14: of two concurrent first-time placeBid calls by one user on one
\* auction, only one inserts the bid: an insert commits only while no bid
\* document of the user exists.  The other call is retried; it then commits
\* as a raise, its amount being strictly greater than the bid's, or fails
\* INVALID_INPUT having written nothing.  The user's reserved funds always
\* equal the amount of the one bid.
C14_ConcurrentFirstBids ==
  /\ [](\A u \in Users : users[u].reserved = ActiveAmount(1, u))
  /\ [][\A c \in Clients :
          (txn[c].op = "placeBid" /\ txn'[c] = IdleTxn) =>
            LET x == txn[c]
                old == bids[x.a][x.u]
                new == bids'[x.a][x.u]
            IN IF StopsShort(c)
               THEN /\ x.attempt >= 2
                    /\ Body(x).err = "INVALID_INPUT"
                    /\ x.amt <= old.amount
                    /\ UNCHANGED dbVars
               ELSE /\ old.status = "none" \/ (old.status = "active" /\ x.amt > old.amount)
                    /\ x.snap.bids[x.a][x.u] = old
                    /\ new.status = "active" /\ new.amount = x.amt
                    /\ users'[x.u].reserved = x.amt]_vars

\* Both clients called placeBid for a user without a bid; one has inserted
\* the bid, the insert of the other is refused on the same key.
C14_Witness ==
  \E c, d \in Clients :
    /\ c # d
    /\ txn[c].op = "placeBid" /\ txn[c].attempt = 1
    /\ txn[c].snap.bids[txn[c].a][txn[c].u].status = "none"
    /\ bids[txn[c].a][txn[c].u].status = "active"
    /\ DuplicateBid(txn[c].snap, Body(txn[c]))
    /\ txn[d].op = "idle"

\* C15: within one round roundEndsAt never decreases, whatever concurrent
\* placeBid and withdrawBid calls do; it is replaced only when a settlement
\* opens the next round and cleared only when the auction ends or is
\* cancelled.
C15_RoundEndNeverShortened ==
  [][\A a \in Auctions :
       LET old == auctions[a]
           new == auctions'[a]
       IN old.roundEndsAt # NoTime =>
            \/ /\ new.state = "running" /\ new.currentRound = old.currentRound
               /\ new.roundEndsAt # NoTime /\ new.roundEndsAt >= old.roundEndsAt
            \/ /\ old.roundState = "closing"
               /\ new.state = "running" /\ new.roundState = "open"
               /\ new.currentRound = old.currentRound + 1 /\ new.roundEndsAt # NoTime
            \/ /\ new.state \in {"ended", "cancelled"} /\ new.roundEndsAt = NoTime]_vars

\* A placeBid that read the round end before another bid extended it is
\* about to write its own, earlier, extension.
C15_Witness ==
  \E c \in Clients :
    LET x == txn[c]
    IN /\ x.op = "placeBid" /\ Body(x).err = "OK"
       /\ auctions[x.a].state = "running" /\ auctions[x.a].roundState = "open"
       /\ x.snap.auctions[x.a].roundEndsAt < auctions[x.a].roundEndsAt
       /\ Body(x).auctions[x.a].roundEndsAt < auctions[x.a].roundEndsAt
       /\ Body(x).auctions[x.a].roundEndsAt > x.snap.auctions[x.a].roundEndsAt

\* C16: an auction with endsAt set and roundEndsAt present has
\* roundEndsAt <= endsAt: after start, after every anti-snipe extension and
\* after every rollover to a new round.
C16_RoundEndsWithinAuction ==
  \A a \in Auctions :
    (auctions[a].endsAt # NoTime /\ auctions[a].roundEndsAt # NoTime)
      => auctions[a].roundEndsAt <= auctions[a].endsAt

\* An anti-snipe extension that was cut at endsAt: the round was extended by
\* a bid 999 ms before its end and now ends with the auction.
C16_Witness ==
  \E a \in Auctions, u \in Users :
    /\ auctions[a].state = "running" /\ auctions[a].currentRound = 1
    /\ auctions[a].roundEndsAt = auctions[a].endsAt
    /\ bids[a][u].status = "active"
    /\ bids[a][u].lastBidAt + auctions[a].config.antiSnipeExtendMs > auctions[a].endsAt

\* The ledger entries written for auction a.
AuctionLedger(L, a) ==
  LET S == {e \in BagToSet(L) : e.auctionId = a} IN [e \in S |-> CopiesIn(e, L)]

\* The Round documents of auction a.
AuctionRounds(R, a) ==
  LET S == {d \in BagToSet(R) : d.auctionId = a} IN [d \in S |-> CopiesIn(d, R)]

\* The step commits the call `op` of some client on auction a.
CallCommits(op, a) ==
  \E c \in Clients : txn[c].op = op /\ txn[c].a = a /\ txn'[c] = IdleTxn /\ ~StopsShort(c)

\* C17: the state of an auction moves draft -> running by startAuction,
\* running -> ended by the engine's settlement, draft -> cancelled and
\* running -> cancelled by cancelAuction, and in no other way.  An ended or
\* cancelled auction is final: no start, cancel, bid, withdraw, tick or
\* settlement with an old closingToken changes the auction, its bids, its
\* Round documents or its ledger entries.
C17_AuctionLifecycle ==
  [][\A a \in Auctions :
       LET old == auctions[a]
           new == auctions'[a]
       IN /\ old.state # new.state =>
               \/ old.state = "absent" /\ new.state = "draft"
               \/ old.state = "draft" /\ new.state = "running" /\ CallCommits("startAuction", a)
               \/ /\ old.state = "running" /\ new.state = "ended"
                  /\ \E p \in Procs : engine[p].pc = "settle" /\ engine[p].a = a
               \/ /\ old.state \in {"draft", "running"} /\ new.state = "cancelled"
                  /\ CallCommits("cancelAuction", a)
          /\ old.state \in {"ended", "cancelled"} =>
               /\ new = old
               /\ bids'[a] = bids[a]
               /\ AuctionRounds(rounds', a) = AuctionRounds(rounds, a)
               /\ AuctionLedger(ledger', a) = AuctionLedger(ledger, a)]_vars

\* The auction was cancelled while its round was closing: the engine's
\* settlement still holds the old closingToken and a read of the closing
\* round, and a client is starting the cancelled auction again.
C17_Witness ==
  \E a \in Auctions, p \in Procs, c \in Clients :
    /\ auctions[a].state = "cancelled"
    /\ engine[p].pc = "settle" /\ engine[p].a = a
    /\ MatchesClosing(engine[p].snap.auctions[a], engine[p].token)
    /\ txn[c].op = "startAuction" /\ txn[c].a = a
    /\ Body(txn[c]).err = "NOT_STARTABLE"

\* The checks of auditAuction on auction a.
AuditAuctionOk(a) ==
  LET won == WonUsers(a)
      serials == {bids[a][u].settlement.giftSerial : u \in won}
  IN /\ auctions[a].revenue = LedgerSum(ledger, a, "spend")
     /\ auctions[a].awardedCount = Cardinality(won)
     /\ Cardinality(serials) = Cardinality(won)
     /\ won # {} => (\A k \in serials : k >= 1 /\ k <= Cardinality(won)) /\ 1 \in serials
                    /\ Cardinality(won) \in serials
     /\ PaidSum(a) = LedgerSum(ledger, a, "spend")
     /\ SumOver(won, [u \in won |-> bids[a][u].settlement.refunded])
          = LedgerSum(ledger, a, "refund")
     /\ auctions[a].state \in {"ended", "cancelled"} => ActiveBidsSum(a) = 0
     /\ LedgerSum(ledger, a, "reserve") - LedgerSum(ledger, a, "unreserve")
          - LedgerSum(ledger, a, "spend") - LedgerSum(ledger, a, "refund") = ActiveBidsSum(a)

\* Round n of auction a was left closing and the engine process is up again
\* for good: it owns the lock, or the lock is free or expires in time.
LeftClosing(a, n, p) ==
  /\ ClosingRound(a) /\ auctions[a].closingToken # NoToken
  /\ auctions[a].currentRound = n
  /\ engine[p].incarnation = MaxIncarnation
  /\ \/ engineLock = NoLock
     \/ engineLock.ownerId = OwnerId(p)
     \/ engineLock.expiresAt <= MaxTimeRecovery

\* Round n of auction a has been settled, once, and the audit is clean.
Recovered(a, n) ==
  /\ AuditAuctionOk(a)
  /\ \/ auctions[a].state = "cancelled"
     \/ /\ RoundCount(a, n) = 1
        /\ \/ auctions[a].state = "ended" /\ auctions[a].currentRound = n
           \/ /\ auctions[a].state = "running" /\ auctions[a].roundState = "open"
              /\ auctions[a].currentRound = n + 1

\* C18: an auction left in state running, roundState closing with its
\* closingToken by a leader that crashed or whose settlement was aborted
\* leaves closing, provided the engine process keeps ticking and gets the
\* lock: its round is settled with exactly one Round document and the
\* auction is ended or open in the next round, or it was cancelled, and the
\* checks of auditAuction hold then.
C18_ClosingIsRecovered ==
  /\ \A a \in AuctionIds, n \in 1..MaxRound : LeftClosing(a, n, 1) ~> Recovered(a, n)
  /\ [](\A a \in Auctions : auctions[a].currentRound <= MaxRound /\ AuditAuctionOk(a))

\* The leader crashed after closing the round: the auction is closing, no
\* Round document exists, and the restarted process is kept out by the lock
\* of its previous life until it expires.
C18_Witness ==
  \E a \in Auctions :
    /\ LeftClosing(a, auctions[a].currentRound, 1)
    /\ RoundCount(a, auctions[a].currentRound) = 0
    /\ engine[1].pc = "idle"
    /\ engineLock # NoLock /\ engineLock.ownerId # OwnerId(1) /\ engineLock.expiresAt > now
    /\ \E u \in Users : bids[a][u].status = "active"

\* The Round document a settlement of auction a would insert, computed on the
\* store as it is now.
RoundNow(a) ==
  LET s == [auctions |-> auctions, bids |-> bids, users |-> users]
  IN RoundDoc(a, auctions[a].currentRound, ClearingPrice(s, a, WinnerBids(s, a)), Winners(s, a))

\* Process p is running settleClosingAuction on a snapshot in which the round
\* of auction a is closing with the token p holds, and it still is.
Resettles(p, a) ==
  /\ engine[p].pc = "settle" /\ engine[p].a = a
  /\ MatchesClosing(engine[p].snap.auctions[a], engine[p].token)
  /\ MatchesClosing(auctions[a], engine[p].token)

\* C19: settling again with the same closingToken yields the same Round
\* contents as the interrupted attempt would have: every attempt that reads
\* the round as closing with that token computes the Round document the
\* store determines (winners in order, giftSerials, clearingPrice, paid,
\* refunded), that document does not change for as long as the round stays
\* closing with the token, and no user is charged twice: at most one spend
\* entry per user and auction, and spent is the sum of what the user's won
\* bids paid.
C19_SettlementRetryIsIdempotent ==
  /\ [](\A p \in Procs, a \in Auctions :
          Resettles(p, a) =>
            /\ SettleBody(engine[p]).err = "OK"
            /\ SettleBody(engine[p]).rounds = SetToBag({RoundNow(a)}))
  /\ [][\A a \in Auctions :
          IsClosing(auctions[a]) /\ MatchesClosing(auctions'[a], auctions[a].closingToken)
            => RoundNow(a)' = RoundNow(a)]_vars
  /\ [](\A u \in Users :
          /\ \A a \in Auctions : EntryCount("spend", u, a) <= 1
          /\ users[u].spent =
               SumOver(Auctions, [a \in Auctions |->
                 IF bids[a][u].status = "won" THEN bids[a][u].settlement.paid ELSE 0]))

\* Two attempts at the same closing round: the leader's, interrupted, and the
\* recovery's by the process that took the lock over; there are two bids to
\* rank, and the second attempt runs at a later time.
C19_Witness ==
  \E a \in Auctions :
    /\ Resettles(1, a) /\ Resettles(2, a)
    /\ engine[1].phase = "close" /\ engine[2].phase = "recover"
    /\ Len(RoundNow(a).winners) = 2
    /\ RoundNow(a).winners[1].refunded > 0
    /\ engine[1].now < engine[2].now

\* What the active bids of user u in the auctions other than a reserve.
ReservedElsewhere(a, u) ==
  SumOver(Auctions \ {a}, [b \in Auctions \ {a} |-> ActiveAmount(b, u)])

\* Users who topped up and have a bid in auction a.
ToppedUpBidders(a) == {u \in Users : users[u].totalTopups > 0 /\ bids[a][u].status # "none"}

\* C20: when cancelAuction commits, every user who topped up and bid in that
\* auction gets back what the bid had reserved: no bid of the auction stays
\* active, available grows by the amount of the user's active bid, and what
\* stays reserved is what the user's active bids in other auctions hold, so
\* that available = totalTopups - spent - (reserved in other auctions).
C20_CancelReturnsAuctionFunds ==
  [][\A a \in Auctions :
       CallCommits("cancelAuction", a) =>
         \A u \in ToppedUpBidders(a) :
           /\ bids'[a][u].status # "active"
           /\ users'[u].available = users[u].available + ActiveAmount(a, u)
           /\ users'[u].reserved = ReservedElsewhere(a, u)'
           /\ users'[u].available =
                users'[u].totalTopups - users'[u].spent - ReservedElsewhere(a, u)']_vars

\* C20 as stated: when cancelAuction commits, every user who topped up and bid
\* in that auction has available = totalTopups - spent.
C20_CancelReturnsEverything ==
  [][\A a \in Auctions :
       CallCommits("cancelAuction", a) =>
         \A u \in ToppedUpBidders(a) :
           users'[u].available = users'[u].totalTopups - users'[u].spent]_vars

\* An auction was cancelled and refunded the bid of a user whose bid in the
\* other auction is still active and still reserves funds.
C20_Witness ==
  \E a \in Auctions, b \in Auctions, u \in Users :
    /\ a # b
    /\ auctions[a].state = "cancelled" /\ bids[a][u].status = "withdrawn"
    /\ EntryCount("reserve", u, a) = 1 /\ EntryCount("unreserve", u, a) = 1
    /\ EntryCount("reserve", u, b) = 1 /\ bids[b][u].status = "active"
    /\ users[u].reserved = bids[b][u].amount
    /\ users[u].available < users[u].totalTopups - users[u].spent

\* The step settles the closing round of auction a: its Round document appears.
Settles(a) ==
  /\ ClosingRound(a)
  /\ \E d \in BagToSet(rounds') :
       /\ d.auctionId = a /\ d.roundNumber = auctions[a].currentRound
       /\ CopiesIn(d, rounds') = CopiesIn(d, rounds) + 1

\* Number of items the settling step awards in auction a.
Awards(a) == auctions'[a].awardedCount - auctions[a].awardedCount

\* C21: a round settled with winnersPerRound > remainingQuantity awards
\* min(remainingQuantity, number of active bids) items, never more than
\* remainingQuantity; when at least remainingQuantity bids are active it
\* awards exactly remainingQuantity and the auction ends with endReason
\* soldOut.
C21_LastItemsSellOut ==
  [][\A a \in Auctions :
       Settles(a) /\ auctions[a].config.winnersPerRound > RemainingQty(auctions[a]) =>
         LET nActive == Cardinality(ActiveUsers(bids, a))
             remainingQty == RemainingQty(auctions[a])
         IN /\ Awards(a) = Min(remainingQty, nActive)
            /\ nActive >= remainingQty =>
                 /\ Awards(a) = remainingQty
                 /\ auctions'[a].state = "ended" /\ auctions'[a].endReason = "soldOut"
                 /\ auctions'[a].awardedCount = auctions'[a].totalQuantity]_vars

\* C21 as stated: such a round awards exactly remainingQuantity items and the
\* auction ends with endReason soldOut.
C21_AlwaysSellsOut ==
  [][\A a \in Auctions :
       Settles(a) /\ auctions[a].config.winnersPerRound > RemainingQty(auctions[a]) =>
         /\ Awards(a) = RemainingQty(auctions[a])
         /\ auctions'[a].state = "ended" /\ auctions'[a].endReason = "soldOut"]_vars

\* The second round had one item left for winnersPerRound = 2 and two active
\* bids: one won the item with serial 2, the other lost, the auction sold out.
C21_Witness ==
  \E a \in Auctions, u \in Users, v \in Users :
    /\ auctions[a].config.winnersPerRound = 2 /\ auctions[a].totalQuantity = 2
    /\ auctions[a].state = "ended" /\ auctions[a].endReason = "soldOut"
    /\ RoundCount(a, 2) = 1 /\ auctions[a].currentRound = 2
    /\ bids[a][u].status = "won" /\ bids[a][u].settlement.wonRound = 2
    /\ bids[a][u].settlement.giftSerial = 2
    /\ bids[a][v].status = "lost"

\* The round end the anti-snipe rule gives a bid placed at time t on an
\* auction with round end E, auction end D (NoTime if none), window w and
\* extension x.
AntiSnipeRule(E, D, w, x, t) ==
  IF E - t <= w
  THEN Max(E, IF D # NoTime THEN Min(t + x, D) ELSE t + x)
  ELSE E

\* C22: a placeBid that succeeds at time t on an auction with roundEndsAt = E
\* and endsAt = D leaves roundEndsAt = max(E, min(t + antiSnipeExtendMs, D))
\* if E - t <= antiSnipeWindowMs, and E otherwise.  With antiSnipeWindowMs = 0
\* no bid changes roundEndsAt; a bid inside the window leaves
\* roundEndsAt >= min(t + antiSnipeExtendMs, D).
C22_AntiSnipeRule ==
  [][\A c \in Clients :
       PlaceBidCommits(c) =>
         LET au == auctions[txn[c].a]
             t == txn[c].now
             new == auctions'[txn[c].a].roundEndsAt
             target == IF au.endsAt # NoTime
                       THEN Min(t + au.config.antiSnipeExtendMs, au.endsAt)
                       ELSE t + au.config.antiSnipeExtendMs
         IN /\ new = AntiSnipeRule(au.roundEndsAt, au.endsAt, au.config.antiSnipeWindowMs,
                                   au.config.antiSnipeExtendMs, t)
            /\ au.config.antiSnipeWindowMs = 0 => new = au.roundEndsAt
            /\ au.roundEndsAt - t <= au.config.antiSnipeWindowMs => new >= target]_vars

\* Window 2 s, extension 3 s, round of 5 s, no maximum duration: a bid placed
\* at 4.5 s moved roundEndsAt to 7.5 s, after a bid at exactly 2 s before the
\* end had moved it to 6 s.
C22_Witness ==
  \E a \in Auctions, u, v \in Users :
    /\ auctions[a].config.antiSnipeWindowMs = 2000
    /\ auctions[a].config.antiSnipeExtendMs = 3000
    /\ auctions[a].endsAt = NoTime
    /\ bids[a][u].status = "active" /\ bids[a][u].lastBidAt = 3000
    /\ bids[a][v].status = "active" /\ bids[a][v].lastBidAt = 4500
    /\ auctions[a].roundEndsAt = 7500

\* The Round document the settling step inserts for auction a.
SettledRound(a) ==
  CHOOSE d \in BagToSet(rounds') :
    d.auctionId = a /\ d.roundNumber = auctions[a].currentRound

\* The smallest of a non-empty set of amounts.
Lowest(S) == CHOOSE x \in S : \A y \in S : x <= y

\* The step adds exactly n entries of `type` for user u in auction a.
AddsEntries(type, u, a, n) == EntryCount(type, u, a)' = EntryCount(type, u, a) + n

\* C23: in every settled round all winners pay the clearing price, the
\* lowest winning bid (0 without winners); each winner is refunded
\* amount - clearingPrice >= 0 with paid + refunded = amount; reserved falls
\* by amount, spent rises by paid, available rises by refunded; one spend
\* entry of paid is written and a refund entry of refunded iff refunded > 0;
\* the refunds of the won bids of an auction sum to its refund entries.
C23_UniformClearingPrice ==
  /\ [][\A a \in Auctions :
          Settles(a) =>
            LET d == SettledRound(a)
                amounts == {d.winners[i].amount : i \in DOMAIN d.winners}
            IN /\ d.clearingPrice = IF amounts = {} THEN 0 ELSE Lowest(amounts)
               /\ \A i \in DOMAIN d.winners : d.winners[i].userId \in Users
               /\ \A u \in Users : \A i \in {j \in DOMAIN d.winners : d.winners[j].userId = u} :
                    LET w == d.winners[i]
                    IN /\ bids[a][u].status = "active" /\ w.amount = bids[a][u].amount
                       /\ w.paid = d.clearingPrice
                       /\ w.refunded = w.amount - d.clearingPrice /\ w.refunded >= 0
                       /\ w.paid + w.refunded = w.amount
                       /\ bids'[a][u].status = "won"
                       /\ bids'[a][u].settlement.paid = w.paid
                       /\ bids'[a][u].settlement.refunded = w.refunded
                       /\ bids'[a][u].settlement.clearingPrice = d.clearingPrice
                       /\ users'[u].reserved = users[u].reserved - w.amount
                       /\ users'[u].spent = users[u].spent + w.paid
                       /\ users'[u].available = users[u].available + w.refunded
                       /\ AddsEntries("spend", u, a, 1)
                       /\ CopiesIn(LedgerEntry("spend", u, a, w.paid), ledger')
                            = CopiesIn(LedgerEntry("spend", u, a, w.paid), ledger) + 1
                       /\ AddsEntries("refund", u, a, IF w.refunded > 0 THEN 1 ELSE 0)
                       /\ w.refunded > 0 =>
                            CopiesIn(LedgerEntry("refund", u, a, w.refunded), ledger')
                              = CopiesIn(LedgerEntry("refund", u, a, w.refunded), ledger) + 1]_vars
  /\ [](\A a \in Auctions :
          SumOver(WonUsers(a), [u \in WonUsers(a) |-> bids[a][u].settlement.refunded])
            = LedgerSum(ledger, a, "refund"))

\* A round with two winners who bid 2 and 1: both paid 1, the higher bidder
\* got 1 back and has a refund entry, the lower one has none.
C23_Witness ==
  \E a \in Auctions, u, v \in Users :
    /\ bids[a][u].status = "won" /\ bids[a][v].status = "won"
    /\ bids[a][u].settlement.wonRound = bids[a][v].settlement.wonRound
    /\ bids[a][u].amount = 2 /\ bids[a][v].amount = 1
    /\ bids[a][u].settlement.paid = 1 /\ bids[a][v].settlement.paid = 1
    /\ bids[a][u].settlement.refunded = 1 /\ bids[a][v].settlement.refunded = 0
    /\ EntryCount("refund", u, a) = 1 /\ EntryCount("refund", v, a) = 0
    /\ users[u].spent = 1 /\ users[u].available = users[u].totalTopups - 1

Sign(x) == IF x < 0 THEN -1 ELSE IF x > 0 THEN 1 ELSE 0

Elems(seq) == {seq[i] : i \in DOMAIN seq}

\* Bid x ranks before bid y: higher amount, then earlier lastBidAt, then
\* lexicographically lower userId.
RanksBefore(x, y) ==
  \/ x.amount > y.amount
  \/ x.amount = y.amount /\ x.lastBidAt < y.lastBidAt
  \/ x.amount = y.amount /\ x.lastBidAt = y.lastBidAt /\ StringLess(x.userId, y.userId)

\* Three bids of 100 at times t, t, t - 1 by users "b", "a", "c".
TieBreakExample ==
  <<[userId |-> <<98>>, amount |-> 100, lastBidAt |-> 1000],
    [userId |-> <<97>>, amount |-> 100, lastBidAt |-> 1000],
    [userId |-> <<99>>, amount |-> 100, lastBidAt |-> 999]>>

UserIdsOf(seq) == [i \in DOMAIN seq |-> seq[i].userId]

\* C25: compareRankableBids is a strict total order (higher amount first,
\* then earlier lastBidAt, then lower userId; 0 only for equal amount, time
\* and userId); selectWinners(bids, n) on bids of distinct users returns the
\* first min(n, |bids|) bids of that order and the amount of the last one
\* as clearing price, nothing and 0 for n <= 0 or no bids, whatever the
\* order of the input; three bids of 100 at t, t, t - 1 by b, a, c rank as
\* [c, a, b].
C25_RankingIsTotalOrder ==
  /\ [](call.fn = "selectWinners" =>
          LET B == Elems(call.bids)
          IN /\ \A x \in B, y \in RankableBids :
                  /\ compareRankableBids(x, y) = 0 <=> x = y
                  /\ Sign(compareRankableBids(x, y)) = -Sign(compareRankableBids(y, x))
                  /\ compareRankableBids(x, y) < 0 <=> RanksBefore(x, y)
             /\ \A x, y, z \in B :
                  compareRankableBids(x, y) < 0 /\ compareRankableBids(y, z) < 0
                    => compareRankableBids(x, z) < 0)
  /\ [](call.fn = "selectWinners" /\ call.out # NoOut =>
          LET B == Elems(call.bids)
              w == call.out.winners
              k == IF call.n <= 0 THEN 0 ELSE Min(call.n, Len(call.bids))
          IN /\ Len(w) = k /\ Elems(w) \subseteq B
             /\ \A i, j \in DOMAIN w : i < j => compareRankableBids(w[i], w[j]) < 0
             /\ \A x \in Elems(w), b \in B \ Elems(w) : compareRankableBids(x, b) < 0
             /\ call.out.clearingPrice = IF k = 0 THEN 0 ELSE w[k].amount
             /\ call.bids = TieBreakExample =>
                  /\ call.n = 3 => UserIdsOf(w) = <<<<99>>, <<97>>, <<98>>>>
                  /\ call.n = 2 => UserIdsOf(w) = <<<<99>>, <<97>>>> /\ call.out.clearingPrice = 100)
  /\ [][call.fn = "selectWinners" /\ call.out # NoOut => call'.out = call.out]_vars

\* The tie-break example, its bids given in reverse order, called with
\* n = 3: the winners are c, a, b.
C25_Witness ==
  /\ call.fn = "selectWinners" /\ call.n = 3
  /\ call.bids = <<TieBreakExample[3], TieBreakExample[2], TieBreakExample[1]>>
  /\ UserIdsOf(call.out.winners) = <<<<99>>, <<97>>, <<98>>>>
  /\ call.out.clearingPrice = 100

\* All the orders in which the elements of S can be listed.
Orders(S) ==
  {seq \in [1..Cardinality(S) -> S] : \A i, j \in DOMAIN seq : i # j => seq[i] # seq[j]}

\* The active bid of user u in auction a as ranking.ts sees it.
Rankable(a, u) ==
  [userId |-> toHexString(u), amount |-> bids[a][u].amount, lastBidAt |-> bids[a][u].lastBidAt]

SettlesBy(p, a) ==
  /\ Settles(a)
  /\ engine[p].pc = "settle" /\ engine[p].a = a
  /\ engine'[p] # engine[p]

\* C26: a settlement with w winners at instant t ends the auction exactly
\* when the supply is sold out (awardedCount + w >= totalQuantity), or endsAt
\* is set and t >= endsAt, or the round was empty with items remaining,
\* maxConsecutiveEmptyRounds > 0 and the previous consecutiveEmptyRounds + 1
\* reaches it; the endReason is soldOut, else maxDuration, else emptyRounds,
\* in that precedence; otherwise the auction stays running.
C26_EndOfAuctionDecision ==
  [][\A a \in Auctions : \A p \in Procs :
       SettlesBy(p, a) =>
         LET au == auctions[a]
             t == engine[p].now
             w == Len(SettledRound(a).winners)
             soldOut == au.awardedCount + w >= au.totalQuantity
             forcedByDuration == au.endsAt # NoTime /\ t >= au.endsAt
             forcedByEmpty ==
               /\ au.totalQuantity - au.awardedCount > 0
               /\ w = 0
               /\ au.config.maxConsecutiveEmptyRounds > 0
               /\ au.consecutiveEmptyRounds + 1 >= au.config.maxConsecutiveEmptyRounds
         IN /\ auctions'[a].state = "ended" <=> (soldOut \/ forcedByDuration \/ forcedByEmpty)
            /\ auctions'[a].state = "ended" =>
                 auctions'[a].endReason =
                   IF soldOut THEN "soldOut"
                   ELSE IF forcedByDuration THEN "maxDuration" ELSE "emptyRounds"
            /\ auctions'[a].state # "ended" => auctions'[a].state = "running"]_vars

\* An auction of maximum duration 12 s ended as sold out by its second
\* round, which was settled after the 12 s had passed.
C26_Witness ==
  \E a \in Auctions :
    /\ auctions[a].state = "ended" /\ auctions[a].endReason = "soldOut"
    /\ auctions[a].endsAt = 12000
    /\ auctions[a].currentRound = 2 /\ auctions[a].awardedCount = 2

\* C27: a settlement at instant t that does not end the auction, in the step
\* that inserts the Round, increases currentRound by exactly 1, opens the
\* round with roundEndsAt = min(t + roundDurationMs, endsAt if set), clears
\* closingToken and closingStartedAt, adds the round's winners to
\* awardedCount and their payments to revenue, and sets
\* consecutiveEmptyRounds to the previous value + 1 if the round had no
\* winner while items remained, else to 0.
C27_RolloverToNextRound ==
  [][\A a \in Auctions : \A p \in Procs :
       SettlesBy(p, a) /\ auctions'[a].state # "ended" =>
         LET au == auctions[a]
             t == engine[p].now
             d == SettledRound(a)
             w == Len(d.winners)
             next == t + au.config.roundDurationMs
         IN /\ auctions'[a].state = "running"
            /\ auctions'[a].currentRound = au.currentRound + 1
            /\ auctions'[a].roundState = "open"
            /\ auctions'[a].roundEndsAt =
                 IF au.endsAt # NoTime THEN Min(next, au.endsAt) ELSE next
            /\ auctions'[a].closingToken = NoToken
            /\ auctions'[a].closingStartedAt = NoTime
            /\ auctions'[a].awardedCount = au.awardedCount + w
            /\ auctions'[a].revenue =
                 au.revenue + SumOver(DOMAIN d.winners, [i \in DOMAIN d.winners |-> d.winners[i].paid])
            /\ auctions'[a].consecutiveEmptyRounds =
                 IF w = 0 /\ au.totalQuantity - au.awardedCount > 0
                 THEN au.consecutiveEmptyRounds + 1 ELSE 0]_vars

\* After a first round with a winner, the second round of an auction of
\* maximum duration 12 s is open and ends with the auction, not 5 s after
\* the settlement.
C27_Witness ==
  \E a \in Auctions :
    /\ auctions[a].state = "running" /\ auctions[a].roundState = "open"
    /\ auctions[a].currentRound = 2
    /\ auctions[a].awardedCount = 1 /\ auctions[a].revenue > 0
    /\ auctions[a].endsAt = 12000 /\ auctions[a].roundEndsAt = 12000
    /\ auctions[a].closingToken = NoToken

\* Process p's settlement transaction stops without committing: its body
\* throws or the store refuses one of its writes (the attempt is aborted,
\* whether it is retried or given up), or the process crashes inside it.
SettlementAborts(p) ==
  /\ engine[p].pc = "settle"
  /\ engine'[p] # engine[p]
  /\ \/ "COMMIT" \notin TxnOutcomes(engine[p].snap, SettleBody(engine[p]))
     \/ engine'[p].incarnation # engine[p].incarnation

\* Auction a is running, closing, with the given token and round number.
ClosingWith(a, token, n) ==
  /\ ClosingRound(a)
  /\ auctions[a].closingToken = token
  /\ auctions[a].currentRound = n

Closes(a) == auctions'[a].closingToken \notin {NoToken, auctions[a].closingToken}

\* Process p's open -> closing update of the auction at the head of its
\* queue finds no document to update.
CasMisses(p) ==
  /\ engine[p].pc = "close" /\ engine[p].queue # <<>>
  /\ engine'[p] # engine[p]
  /\ engine'[p].incarnation = engine[p].incarnation
  /\ \A a \in Auctions : ~Closes(a)

\* C29: at most one open -> closing update succeeds per round.  The update
\* succeeds only on an auction that at that moment is running, open and due;
\* it sets roundState closing with a token never issued before and
\* closingStartedAt, and bumps version; a closing round is reopened only as
\* the next round, so no second update can succeed for the same round.  A
\* process whose update misses writes nothing, moves on to the next auction
\* it found and starts no settlement for the missed one.
C29_OneCloseSucceedsPerRound ==
  [][/\ \A a \in Auctions :
          /\ Closes(a) =>
               /\ auctions[a].state = "running" /\ auctions[a].roundState = "open"
               /\ \E p \in Procs :
                    /\ engine[p].pc = "close" /\ engine'[p].a = a
                    /\ \/ auctions[a].roundEndsAt <= engine[p].tickNow - closeGraceMs
                       \/ auctions[a].endsAt # NoTime
                            /\ auctions[a].endsAt <= engine[p].tickNow - closeGraceMs
                    /\ auctions'[a].closingStartedAt = engine[p].tickNow
                    /\ engine'[p].token = auctions'[a].closingToken
               /\ auctions'[a] = [auctions[a] EXCEPT
                                    !.roundState = "closing",
                                    !.closingToken = auctions'[a].closingToken,
                                    !.closingStartedAt = auctions'[a].closingStartedAt,
                                    !.version = @ + 1]
               /\ auctions'[a].closingToken > tokenCtr
               /\ \A b \in Auctions : auctions[b].closingToken <= tokenCtr
               /\ \A q \in Procs : engine[q].token <= tokenCtr
          /\ (auctions[a].roundState = "closing" /\ auctions'[a].roundState = "open")
               => auctions'[a].currentRound = auctions[a].currentRound + 1
          /\ auctions'[a].currentRound >= auctions[a].currentRound
     /\ \A p \in Procs :
          CasMisses(p) =>
            /\ UNCHANGED dbVars
            /\ engine'[p].queue = Tail(engine[p].queue)
            /\ engine'[p].pc = "close" /\ engine'[p].a = engine[p].a]_vars

\* Two processes found the same due round: one closed it and is about to
\* settle it, the other still has it at the head of its queue and will miss.
C29_Witness ==
  \E p, q \in Procs : \E a \in Auctions :
    /\ p # q
    /\ engine[p].pc \in {"settleBegin", "settle"} /\ engine[p].a = a
    /\ engine[p].phase = "close" /\ engine[p].token = auctions[a].closingToken
    /\ ClosingRound(a)
    /\ engine[q].pc = "close" /\ engine[q].queue # <<>> /\ engine[q].queue[1][1] = a

\* C30: the engine moves a round from open to closing only when, on the
\* document the update meets, roundEndsAt <= t - 250 ms or endsAt <= t - 250 ms,
\* t being the instant the tick started: the round's current roundEndsAt,
\* extended by anti-sniping or not, has passed by then, and a round whose
\* roundEndsAt a bid has moved past t - 250 ms since the engine found it due
\* is not closed.
C30_ClosesOnlyAfterRoundEnd ==
  [][\A a \in Auctions :
       /\ Closes(a) =>
            \E p \in Procs :
              /\ engine[p].pc = "close" /\ engine'[p].a = a
              /\ engine[p].tickNow <= now
              /\ \/ auctions[a].roundEndsAt <= engine[p].tickNow - closeGraceMs
                 \/ auctions[a].endsAt # NoTime
                      /\ auctions[a].endsAt <= engine[p].tickNow - closeGraceMs
              /\ auctions[a].roundEndsAt <= engine[p].tickNow - closeGraceMs
       /\ \A p \in Procs :
            ( /\ engine[p].pc = "close" /\ engine[p].queue # <<>>
              /\ engine[p].queue[1][1] = a
              /\ auctions[a].roundEndsAt > engine[p].tickNow - closeGraceMs
              /\ auctions[a].endsAt = NoTime \/ auctions[a].endsAt > engine[p].tickNow - closeGraceMs )
            => ~Closes(a)]_vars

\* The engine found the round due, and before its update a bid made in the
\* anti-snipe window committed and moved roundEndsAt past the tick's
\* threshold: the round stays open.
C30_Witness ==
  \E p \in Procs : \E a \in Auctions : \E u \in Users :
    /\ engine[p].pc = "close" /\ engine[p].queue # <<>> /\ engine[p].queue[1][1] = a
    /\ OpenForBids(auctions[a])
    /\ auctions[a].roundEndsAt > engine[p].tickNow - closeGraceMs
    /\ auctions[a].endsAt > engine[p].tickNow - closeGraceMs
    /\ bids[a][u].status = "active"
    /\ bids[a][u].lastBidAt < engine[p].tickNow
    /\ auctions[a].roundEndsAt = bids[a][u].lastBidAt + auctions[a].config.antiSnipeExtendMs

\* The call in slot c commits in this step.
SlotCommits(c) == txn[c].op # "idle" /\ txn'[c] # txn[c] /\ ~StopsShort(c)

\* C31: a withdrawBid that succeeds sets the caller's active bid to
\* withdrawn, moves exactly bid.amount from reserved to available, appends one
\* unreserve ledger entry of that amount and bumps the auction's version; it
\* leaves roundEndsAt, roundState, currentRound, every other field of the
\* auction, every other bid, every other user and the rounds unchanged.  A
\* withdrawBid on an open round without an active bid fails BID_NOT_ACTIVE, and
\* a withdrawBid that fails changes nothing.
C31_WithdrawFrame ==
  [][\A c \in Clients :
       txn[c].op = "withdrawBid" =>
         LET x == txn[c]
             bid == bids[x.a][x.u]
             au == x.snap.auctions[x.a]
         IN /\ SlotCommits(c) =>
                 /\ bid.status = "active"
                 /\ bids' = [bids EXCEPT ![x.a][x.u] = [bid EXCEPT !.status = "withdrawn"]]
                 /\ users' = [users EXCEPT ![x.u] =
                                [@ EXCEPT !.reserved = @ - bid.amount,
                                          !.available = @ + bid.amount]]
                 /\ users[x.u].reserved >= bid.amount
                 /\ ledger' = ledger (+) SetToBag({LedgerEntry("unreserve", x.u, x.a, bid.amount)})
                 /\ auctions' = [auctions EXCEPT ![x.a] = [@ EXCEPT !.version = @ + 1]]
                 /\ rounds' = rounds
            /\ (OpenForBids(au) /\ x.now < au.roundEndsAt /\ x.snap.bids[x.a][x.u].status # "active")
                 => Body(x).err = "BID_NOT_ACTIVE"
            /\ (txn'[c] # x /\ StopsShort(c)) => UNCHANGED dbVars]_vars

\* A bid was withdrawn in an open round in which another user's bid stands,
\* its amount is available again, and a second withdrawBid of the same user
\* is failing BID_NOT_ACTIVE.
C31_Witness ==
  \E c \in Clients : \E v \in Users :
    LET x == txn[c]
    IN /\ x.op = "withdrawBid" /\ Body(x).err = "BID_NOT_ACTIVE"
       /\ OpenForBids(auctions[x.a])
       /\ bids[x.a][x.u].status = "withdrawn" /\ bids[x.a][x.u].amount > 0
       /\ users[x.u].reserved = 0 /\ users[x.u].available = users[x.u].totalTopups
       /\ EntryCount("unreserve", x.u, x.a) = 1
       /\ v # x.u /\ bids[x.a][v].status = "active"

C33_StartOnlyFromDraft ==
  [][/\ \A c \in Clients :
          txn[c].op = "startAuction" =>
            LET x == txn[c]
                a == x.a
                cfg == auctions[a].config
                auctionEndsAt == IF cfg.maxDurationMs > 0 THEN x.now + cfg.maxDurationMs
                                 ELSE NoTime
            IN /\ SlotCommits(c) =>
                    /\ auctions[a].state = "draft"
                    /\ auctions' = [auctions EXCEPT ![a] =
                         [@ EXCEPT !.state = "running", !.currentRound = 1,
                                   !.roundState = "open",
                                   !.endsAt = auctionEndsAt,
                                   !.roundEndsAt =
                                      IF auctionEndsAt # NoTime
                                      THEN Min(x.now + cfg.roundDurationMs, auctionEndsAt)
                                      ELSE x.now + cfg.roundDurationMs,
                                   !.version = @ + 1]]
                    /\ UNCHANGED <<users, bids, rounds, ledger>>
               /\ x.snap.auctions[a].state \in {"running", "ended", "cancelled"}
                    => Body(x).err = "NOT_STARTABLE"
               /\ (txn'[c] # x /\ StopsShort(c)) => UNCHANGED dbVars
               /\ (txn'[c] = IdleTxn /\ StopsShort(c) /\ x.snap.auctions[a].state # "absent")
                    => Body(x).err = "NOT_STARTABLE"
     /\ \A a \in Auctions :
          auctions[a].state \notin {"absent", "draft"} => auctions'[a].state # "draft"]_vars

\* Two start calls read the draft auction at 1 s; one has committed, the
\* other was refused its write, runs again and is failing NOT_STARTABLE.  The
\* auction's maximum duration is shorter than its round, so the round ends
\* with the auction.
C33_Witness ==
  \E c \in Clients : \E a \in Auctions :
    /\ txn[c].op = "startAuction" /\ txn[c].a = a /\ txn[c].attempt = 2
    /\ Body(txn[c]).err = "NOT_STARTABLE"
    /\ auctions[a].state = "running" /\ auctions[a].currentRound = 1
    /\ auctions[a].roundState = "open"
    /\ auctions[a].endsAt = 1000 + auctions[a].config.maxDurationMs
    /\ auctions[a].roundEndsAt = auctions[a].endsAt
    /\ auctions[a].roundEndsAt < 1000 + auctions[a].config.roundDurationMs

\* The moves of a bid's status.
BidMoves ==
  {<<"none", "active">>, <<"active", "won">>, <<"active", "lost">>,
   <<"active", "withdrawn">>, <<"withdrawn", "active">>}

\* C34: the status of the bid of a user in an auction (there is one bid per
\* auction and user) only moves (no bid) -> active, active -> won,
\* active -> lost, active -> withdrawn and withdrawn -> active; won and lost
\* are terminal.  So the rounds of an auction list a user as winner at most
\* once, and a placeBid of a user whose bid is won, on an open round, fails
\* BID_NOT_ACTIVE.
C34_BidStatusMoves ==
  [][/\ \A a \in Auctions : \A u \in Users :
          /\ bids'[a][u].status # bids[a][u].status
               => <<bids[a][u].status, bids'[a][u].status>> \in BidMoves
          /\ WinnerListings(a, u) <= 1
          /\ WinnerListings(a, u) = 1 <=> bids[a][u].status = "won"
     /\ \A c \in Clients :
          LET x == txn[c]
          IN ( /\ x.op = "placeBid" /\ x.amt > 0
               /\ OpenForBids(x.snap.auctions[x.a])
               /\ x.now < x.snap.auctions[x.a].roundEndsAt
               /\ x.snap.bids[x.a][x.u].status \in {"won", "lost"} )
             => Body(x).err = "BID_NOT_ACTIVE" /\ StopsShort(c)]_vars

\* A user placed a bid, withdrew it, placed it again and won the first
\* round; the user's next placeBid, in the open second round, is failing
\* BID_NOT_ACTIVE.
C34_Witness ==
  \E c \in Clients :
    LET x == txn[c]
    IN /\ x.op = "placeBid" /\ Body(x).err = "BID_NOT_ACTIVE"
       /\ OpenForBids(auctions[x.a]) /\ auctions[x.a].currentRound = 2
       /\ bids[x.a][x.u].status = "won"
       /\ EntryCount("reserve", x.u, x.a) = 2
       /\ EntryCount("unreserve", x.u, x.a) = 1

\* C35: in every reachable state of an auction, roundState and roundEndsAt
\* are present only while state = running and a running auction has both;
\* closingToken and closingStartedAt are present only while roundState =
\* closing, and a closing auction has a closingToken.
C35_FieldPresence ==
  \A a \in Auctions :
    LET au == auctions[a]
    IN /\ (au.roundState # "none" \/ au.roundEndsAt # NoTime) => au.state = "running"
       /\ au.state = "running" => au.roundState \in {"open", "closing"} /\ au.roundEndsAt # NoTime
       /\ (au.closingToken # NoToken \/ au.closingStartedAt # NoTime) => au.roundState = "closing"
       /\ au.roundState = "closing" => au.closingToken # NoToken

\* An auction was cancelled while its round was closing and a process was
\* about to settle it: the round fields and the token are gone.
C35_Witness ==
  \E a \in Auctions : \E p \in Procs :
    /\ auctions[a].state = "cancelled"
    /\ engine[p].pc = "settle" /\ engine[p].a = a /\ engine[p].token # NoToken
    /\ engine[p].snap.auctions[a].closingToken = engine[p].token
    /\ auctions[a].roundState = "none" /\ auctions[a].roundEndsAt = NoTime
    /\ auctions[a].closingToken = NoToken /\ auctions[a].closingStartedAt = NoTime

\* Two auctions, one client that funds users, starts auctions and bids, one
\* engine process that is stopped at any moment, also inside a tick.
NextStop ==
  \/ \E a \in Auctions : CreateAuction(a)
  \/ BidderNext(1, {1}, MaxLedger)
  \/ TickBegin(1)
  \/ TickLeader(1)
  \/ FindClosing(1)
  \/ FindDue(1)
  \/ CloseRound(1)
  \/ SettleBegin(1)
  \/ SettleCommit(1)
  \/ TickEnd(1)
  \/ Stop(1)
  \/ AdvanceClock(MaxTimeAuctions)

SpecStop == Init /\ [][NextStop]_vars

\* Process p calls settleClosingAuction in this step.
StartsSettlement(p) == engine[p].pc # "settle" /\ engine'[p].pc = "settle"

\* C36: once stop() has been called the engine starts no further settlement,
\* also not for the remaining auctions of a tick that is already in progress.
C36_NoSettlementAfterStop ==
  [][\A p \in Procs : engine[p].stopped => ~StartsSettlement(p)]_vars

\* One auction more than a find of the tick returns.
ManyAuctions == 1..(findLimit + 1)

\* Auctions of one item that end with their first round.
LimitInputs ==
  { [totalQuantity |-> 1, roundDurationMs |-> 5000, winnersPerRound |-> 1,
     antiSnipeWindowMs |-> 0, antiSnipeExtendMs |-> 0, maxDurationMs |-> 0,
     maxConsecutiveEmptyRounds |-> 1] }

\* createAuction: the ids of the auctions follow the order of their creation.
CreateNextAuction(inputs) ==
  \E a \in Auctions :
    /\ \A b \in Auctions : b < a => auctions[b].state # "absent"
    /\ CreateAuctionFrom(a, inputs)

\* startAuction for the oldest auction that is still a draft.
StartNextAuction(c) ==
  \E a \in Auctions :
    /\ auctions[a].state = "draft"
    /\ \A b \in Auctions : b < a => auctions[b].state \notin {"absent", "draft"}
    /\ RequestStartAuction(c, a)

InitLimit == EmptyStore(ManyAuctions) /\ call = NoCall

\* Six auctions, one client that creates and starts them one after the
\* other, one engine process that can crash and restart; no bids.
NextLimit ==
  \/ CreateNextAuction(LimitInputs)
  \/ StartNextAuction(1)
  \/ TxnCommit(1)
  \/ TickBegin(1)
  \/ TickLeader(1)
  \/ TickNotLeader(1)
  \/ FindClosing(1)
  \/ RecoverNext(1)
  \/ FindDue(1)
  \/ CloseRound(1)
  \/ SettleBegin(1)
  \/ SettleCommit(1)
  \/ TickEnd(1)
  \/ Crash(1)
  \/ LockExpires
  \/ AdvanceClock(MaxTimeRecovery)

SpecLimit == InitLimit /\ [][NextLimit]_vars

\* C37 as stated: a tick runs settlement for at most 5 auctions in total,
\* counting recovered closings and newly closed due rounds.
C37_AtMostFivePerTick ==
  \A p \in Procs : engine[p].recovered + engine[p].closed <= findLimit

\* C37, amended: a tick runs settlement for at most 5 recovered closings and
\* then for at most 5 newly closed due rounds, at most 10 auctions in total.
C37_AtMostFivePerLoop ==
  \A p \in Procs :
    /\ engine[p].recovered <= findLimit
    /\ engine[p].closed <= findLimit
    /\ engine[p].recovered + engine[p].closed <= 2 * findLimit

\* A tick has settled five newly closed rounds and ends while a sixth auction
\* is still open and due.
C37_Witness ==
  \E p \in Procs : \E a \in Auctions :
    /\ engine[p].pc = "close" /\ engine[p].queue = <<>>
    /\ engine[p].closed = findLimit
    /\ IsDue(auctions[a], Threshold(engine[p].tickNow))

----------------------------------------------------------------------------
(* withTxn's loop, run on every sequence of outcomes its attempts can meet *)

\* The callers of withTxn; placeBid alone passes retryOnDuplicateKey.
TxnOps ==
  {"topupUser", "startAuction", "cancelAuction", "placeBid", "withdrawBid",
   "settleClosingAuction"}

\* How one session.withTransaction ends: committed, a transient transaction
\* error, a duplicate key (code 11000), or a domain error thrown by the body.
AttemptOutcomes == {"COMMIT", "CONFLICT", "DUPKEY", "NOT_OPEN"}

\* One call of withTxn: outcomes[i] is what a body run as attempt i meets.
InitWithTxn ==
  /\ InitStore
  /\ call \in [fn : {"withTxn"}, op : TxnOps,
               outcomes : [1..(maxAttempts + 1) -> AttemptOutcomes],
               attempt : {1}, runs : {0}, lastErr : {"none"},
               pc : {"loop"}, out : {"none"}]

\* return res
WithTxnReturn ==
  /\ call.fn = "withTxn" /\ call.pc = "loop"
  /\ call.attempt <= maxAttempts
  /\ call.outcomes[call.attempt] = "COMMIT"
  /\ call' = [call EXCEPT !.runs = @ + 1, !.pc = "returned", !.out = "COMMIT"]
  /\ UNCHANGED <<now, dbVars, txn, engineVars>>

\* catch: lastErr = err; continue
WithTxnContinue ==
  /\ call.fn = "withTxn" /\ call.pc = "loop"
  /\ call.attempt <= maxAttempts
  /\ LET err == call.outcomes[call.attempt]
     IN /\ err # "COMMIT"
        /\ Retries(err, call.attempt, call.op = "placeBid")
        /\ call' = [call EXCEPT !.runs = @ + 1, !.lastErr = err, !.attempt = @ + 1]
  /\ UNCHANGED <<now, dbVars, txn, engineVars>>

\* catch: throw err; after the loop: throw lastErr
WithTxnThrow ==
  /\ call.fn = "withTxn" /\ call.pc = "loop"
  /\ IF call.attempt <= maxAttempts
     THEN LET err == call.outcomes[call.attempt]
          IN /\ err # "COMMIT"
             /\ ~Retries(err, call.attempt, call.op = "placeBid")
             /\ call' = [call EXCEPT !.runs = @ + 1, !.lastErr = err,
                                     !.pc = "thrown", !.out = err]
     ELSE call' = [call EXCEPT !.pc = "thrown", !.out = call.lastErr]
  /\ UNCHANGED <<now, dbVars, txn, engineVars>>

NextWithTxn == WithTxnReturn \/ WithTxnContinue \/ WithTxnThrow

\* Every awaited session.withTransaction returns or throws.
SpecWithTxn == InitWithTxn /\ [][NextWithTxn]_vars /\ WF_vars(NextWithTxn)

\* The attempts before attempt i all failed in a way withTxn retries for op.
RetriedBefore(i) ==
  \A j \in 1..(i - 1) :
    \/ call.outcomes[j] = "CONFLICT"
    \/ call.outcomes[j] = "DUPKEY" /\ call.op = "placeBid"

\* C38: withTxn runs the body at most maxAttempts = 5 times; every run but the
\* last failed with a transient transaction error, or with a duplicate key in
\* a call of placeBid; it returns when a run commits; it throws the error of
\* its last run unchanged, and that error is a domain error, a duplicate key
\* when the caller is not placeBid, or the error of the fifth run; and every
\* call returns or throws.
C38_WithTxnRetries ==
  /\ [](/\ call.runs <= maxAttempts
        /\ RetriedBefore(call.runs)
        /\ call.pc = "loop" => call.runs = call.attempt - 1 /\ RetriedBefore(call.attempt)
        /\ call.pc = "returned" =>
             call.outcomes[call.runs] = "COMMIT" /\ call.out = "COMMIT"
        /\ call.pc = "thrown" =>
             /\ call.runs >= 1
             /\ call.out = call.outcomes[call.runs]
             /\ \/ call.out = "NOT_OPEN"
                \/ call.out = "DUPKEY" /\ call.op # "placeBid"
                \/ call.out \in {"CONFLICT", "DUPKEY"} /\ call.runs = maxAttempts)
  /\ <>(call.pc \in {"returned", "thrown"})

\* A placeBid whose first run met a duplicate key and whose next four runs
\* met transient errors has thrown the transient error of its fifth run.
C38_Witness ==
  /\ call.fn = "withTxn" /\ call.op = "placeBid"
  /\ call.outcomes[1] = "DUPKEY"
  /\ call.pc = "thrown" /\ call.runs = maxAttempts /\ call.out = "CONFLICT"

\* An auction with anti-sniping and a maximum duration of 7.5 s that no run
\* of empty rounds ends.
LiveInputs ==
  { [totalQuantity |-> 2, roundDurationMs |-> 5000, winnersPerRound |-> 1,
     antiSnipeWindowMs |-> 1000, antiSnipeExtendMs |-> 2000, maxDurationMs |-> 7500,
     maxConsecutiveEmptyRounds |-> 0] }

\* One auction created from LiveInputs, one client that funds two users, starts,
\* cancels, bids, raises and withdraws, and one engine process that never
\* crashes: setInterval keeps calling tick, every awaited operation of a tick
\* returns, and time passes.  Nothing obliges the client to call.
NextLive ==
  \/ CreateAuctionFrom(1, LiveInputs)
  \/ ClientNext(1, Bidders, MaxLedger)
  \/ TickNext(1)
  \/ AdvanceClockTo(SnipeInstants)

SpecLive ==
  /\ Init /\ [][NextLive]_vars
  /\ WF_vars(TickNext(1))
  /\ WF_vars(AdvanceClockTo(SnipeInstants))

\* The last instant the clock of SpecLive is read at.
LastInstant == CHOOSE t \in SnipeInstants : \A s \in SnipeInstants : s <= t

\* Auction a is running with a maximum duration.
RunningWithMaxDuration(a) ==
  auctions[a].state = "running" /\ auctions[a].config.maxDurationMs > 0

\* C39: an auction with maxDurationMs > 0 has endsAt set while it runs and no
\* round of it is opened or extended past endsAt; a settlement that executes
\* at now >= endsAt ends the auction, as soldOut or maxDuration, and never
\* opens another round; hence, with an engine that keeps ticking and holds the
\* lock and with time passing, every such running auction whose endsAt the
\* clock can pass becomes ended or cancelled, whatever the bidder places,
\* raises or withdraws.
C39_MaxDurationEndsAuction ==
  /\ [](\A a \in Auctions : RunningWithMaxDuration(a) =>
          /\ auctions[a].endsAt # NoTime
          /\ auctions[a].roundEndsAt # NoTime
          /\ auctions[a].roundEndsAt <= auctions[a].endsAt)
  /\ [][\A a \in Auctions : \A p \in Procs :
          (SettlesBy(p, a) /\ RunningWithMaxDuration(a) /\ engine[p].now >= auctions[a].endsAt)
            => /\ auctions'[a].state = "ended"
               /\ auctions'[a].endReason \in {"soldOut", "maxDuration"}
               /\ auctions'[a].currentRound = auctions[a].currentRound]_vars
  /\ \A a \in AuctionIds :
       (RunningWithMaxDuration(a) /\ auctions[a].endsAt + closeGraceMs <= LastInstant)
         ~> auctions[a].state \in {"ended", "cancelled"}

\* The auction ended by its maximum duration in its second round: the first
\* round, extended by a bid inside the anti-snipe window, had a winner, and
\* the second round ended with the auction.
C39_Witness ==
  \E a \in Auctions : \E u \in Users :
    /\ auctions[a].state = "ended" /\ auctions[a].endReason = "maxDuration"
    /\ auctions[a].config.maxDurationMs > 0
    /\ auctions[a].currentRound = 2
    /\ bids[a][u].status = "won" /\ bids[a][u].lastBidAt >= 4000

\* Process p holds a closingToken of auction a, in the settlement it runs or
\* is about to run, or among the closings it found to recover.
HoldsToken(p, a) ==
  \/ engine[p].a = a /\ engine[p].token # NoToken
  \/ \E i \in DOMAIN engine[p].queue :
       engine[p].queue[i][1] = a /\ engine[p].queue[i][2] # NoToken

====
